---------------------------- MODULE Spec2Model ----------------------------
(***************************************************************************)
(* Model of projects/analise_sensoriamento_pthreads: the device index     *)
(* (hash_table.c), the balanced partitioner (data_analysis.c), the        *)
(* parallel line scanner (line_count.c, thread_utils.c) and the worker    *)
(* loop with its Unix-domain-socket exchange (main.c, data_analysis.c).   *)
(*                                                                         *)
(* A byte is a one-character string.  A pointer into the mapping is a     *)
(* 1-based position; NULL is 0.  The memory a C string function can read  *)
(* from the mapping is the file's bytes followed by whatever lies after   *)
(* the mapping (pad) up to the first NUL byte.                            *)
(***************************************************************************)
EXTENDS Integers, Sequences, FiniteSets, Bags, TLC

LF == "\n"
PIPE == "|"
NUL == "NUL"
NULL == 0

\* ------------------------------------------------------------------ bounds
MaxLines == 3
MaxThreads == 3
MaxColumn == 1
\* The staging buffer of partition_csv_by_device_threaded is 1024 * 1024
\* bytes in the source; it is scaled down so that the bounded inputs reach
\* the branch that flushes a full staging buffer.
BUFFER_SIZE == 8
MaxScanLen == 7
\* count_lines_in_memory_parallel scans sequentially below 102400 bytes and
\* with two threads below 1048576 bytes; both limits are scaled down so that
\* the bounded inputs reach all three branches.
SMALL_FILE_LIMIT == 3
TWO_THREAD_LIMIT == 6
MaxWorkers == 2
\* The subprocess writes its response at most SegmentLen bytes at a time, or
\* all that is left at once.
SegmentLen == 4
\* worker_func receives into a buffer of 1024 * 1024 bytes; it is scaled down
\* with the chunks.
RECV_BUFFER_SIZE == 32
EXIT_SUCCESS == 0
EXIT_FAILURE == 1
\* The status of a process that glibc aborts (128 + SIGABRT).
EXIT_ABORT == 134

\* --------------------------------------------------------------- variables
VARIABLES
    mapped_data,        \* DeviceMappedCSV.mapped_data: the file's bytes
    pad,                \* bytes that follow the mapping in memory, before a NUL
    device_column,      \* DeviceHashTable.device_column
    num_threads,        \* the N handed to the partitioner
    pc,                 \* position of the index build / partitioner
    curr,               \* map_device_csv: start of the line examined next
    device_table,       \* entries of the hash table, in insertion order
    data_count,         \* DeviceMappedCSV.data_count
    devices,            \* partitioner: DeviceInfo array after the sort
    dev_i,              \* partitioner: index i of the greedy loop
    thread_allocations, \* partitioner: ThreadAllocation array
    thr_t,              \* partitioner: index t of the emission loop
    queue,              \* the chunk queue: its nodes from head to tail
    queue_count,        \* the chunk queue: its count field
    queue_ops,          \* the successful enqueues and dequeues so far
    chunks_created,     \* partitioner: its return value
    header,             \* DeviceMappedCSV.header: the copy of the first line
    run,                \* 1 for the first run on the file, 2 for the second
    first_run           \* the chunks the first run enqueued

partVars == <<mapped_data, pad, device_column, num_threads, pc, curr,
              device_table, data_count, devices, dev_i, thread_allocations,
              thr_t, queue, queue_count, queue_ops, chunks_created, header,
              run, first_run>>

VARIABLES
    s_data,             \* scanner: the bytes handed to the scan
    num_processors,     \* get_available_number_of_processors()
    s_pc,               \* scanner: position of the calling thread
    s_i,                \* start_threads: loop index i (0-based)
    current_offset,     \* start_threads: current_offset
    thread_data,        \* ThreadResources.thread_data, indexed 1..T
    t_pc,               \* position of each scanner thread
    t_end,              \* count_lines_worker: its local end, once computed
    total_line_count,   \* count_lines_in_memory_parallel: return value
    global_index,       \* *line_index_ptr
    total_lines,        \* *total_lines_ptr
    first_scan          \* what the first scan of the buffer returned

scanVars == <<s_data, num_processors, s_pc, s_i, current_offset, thread_data,
              t_pc, t_end, total_line_count, global_index, total_lines,
              first_scan>>

VARIABLES
    m_pc,               \* main: its position after the partitioner
    exit_status,        \* main: the value it returns
    num_chunks,         \* main: num_chunks, which is also n_threads
    m_total_lines,      \* main: total_lines, the sum of line_counts
    w_pc,               \* position of each worker, indexed 1..n_threads
    w_slice,            \* worker: the chunk it dequeued
    w_total_lines,      \* worker: its local total_lines
    line_counts,        \* WorkerArgs.line_counts
    sock_file,          \* per socket path, whether the file exists
    socket_fd,          \* whether the worker's listening socket is open
    pending,            \* whether a connection waits to be accepted
    stream,             \* bytes written to that connection and not yet read
    peer_closed,        \* whether the subprocess closed its end of it
    p_state,            \* position of the worker's subprocess
    p_behaviour,        \* how that subprocess behaves
    p_input,            \* what the subprocess read from the worker
    send_rc,            \* per worker: what its last send_csv_chunk returned
    p_output,           \* what the subprocess has still to write
    behaviours,         \* the behaviours of all subprocesses spawned so far
    faults,             \* the system-call failures that occurred so far
    device_column_name, \* main: the column name asked for (argv[2])
    file_mapped,        \* whether map_file has called mmap
    queue_created       \* whether main has created the chunk queue

workVars == <<m_pc, exit_status, num_chunks, m_total_lines, w_pc, w_slice,
              w_total_lines, line_counts, sock_file, socket_fd, pending,
              stream, peer_closed, p_state, p_behaviour, p_input, send_rc,
              p_output, behaviours, faults, device_column_name, file_mapped,
              queue_created>>

VARIABLES
    total_memory_freed, \* worker: total_memory_freed, the bytes it has freed
    chunks_processed,   \* worker: chunks_processed
    chunks_dropped,     \* per worker: the iterations it left by a continue
    final_result_size,  \* worker: final_result_size
    m_heap,             \* main: what it owns, each "none", "live" or "freed"
    stale_reads,        \* what main read or freed after it had freed it
    mutex               \* the holder of hash_mutex and of the queue's mutex

tailVars == <<total_memory_freed, chunks_processed, chunks_dropped,
              final_result_size, m_heap, stale_reads>>

vars == <<partVars, scanVars, workVars, tailVars, mutex>>

\* What the actions of one part leave alone.
notPart == <<scanVars, workVars, tailVars>>
notScan == <<partVars, workVars, tailVars>>
\* The workers take chunks from the queue and touch nothing else of the
\* partitioner or the scanner.
notWork == <<mapped_data, pad, device_column, num_threads, pc, curr,
             device_table, data_count, devices, dev_i, thread_allocations,
             thr_t, chunks_created, header, run, first_run, scanVars,
             device_column_name, file_mapped, queue_created>>

\* ------------------------------------------------------------ C-string view
Min(S) == CHOOSE x \in S : \A y \in S : x <= y
Max(S) == CHOOSE x \in S : \A y \in S : x >= y

\* The bytes addressable from the mapping: file, then pad, then a NUL.
Mem(data, pd) == data \o pd \o <<NUL>>

\* Position of the NUL that ends the C string starting at p.
StrEnd(mem, p) == Min({q \in p..Len(mem) : mem[q] = NUL})

\* strchr(p, ch): first ch at or after p before the terminating NUL, or NULL.
strchr(mem, p, ch) ==
    LET hits == {q \in p..(StrEnd(mem, p) - 1) : mem[q] = ch}
    IN  IF hits = {} THEN NULL ELSE Min(hits)

\* memchr(p, ch, n): first ch among the n bytes starting at p, or NULL.
memchr(mem, p, ch, n) ==
    LET hits == {q \in p..(p + n - 1) : mem[q] = ch}
    IN  IF hits = {} THEN NULL ELSE Min(hits)


\* -------------------------------------------------------------- hash table
\* ASCII code of a byte of the model's alphabet.
Ord(ch) ==
    CASE ch = LF -> 10
      [] ch = " " -> 32
      [] ch = "1" -> 49
      [] ch = "2" -> 50
      [] ch = "3" -> 51
      [] ch = "4" -> 52
      [] ch = "5" -> 53
      [] ch = "6" -> 54
      [] ch = "A" -> 65
      [] ch = "B" -> 66
      [] ch = "C" -> 67
      [] ch = "d" -> 100
      [] ch = "i" -> 105
      [] ch = "x" -> 120
      [] ch = PIPE -> 124

RECURSIVE XorBits(_, _, _)
XorBits(a, b, n) ==
    IF n = 0 THEN 0
    ELSE (((a % 2) + (b % 2)) % 2) + 2 * XorBits(a \div 2, b \div 2, n - 1)

\* One round of FNV-1a on an unsigned 32-bit value kept as two 16-bit halves:
\* hash ^= byte; hash *= 16777619 (= 2^24 + 403), modulo 2^32.
FnvStep(h, byte) ==
    LET lo1  == (h.lo - (h.lo % 256)) + XorBits(h.lo % 256, byte, 8)
        prod == lo1 * 403
    IN  [lo |-> prod % 65536,
         hi |-> (h.hi * 403 + (prod \div 65536) + (lo1 % 256) * 256) % 65536]

RECURSIVE FnvFrom(_, _, _)
FnvFrom(h, str, k) ==
    IF k > Len(str) THEN h ELSE FnvFrom(FnvStep(h, Ord(str[k])), str, k + 1)

\* hash_string: FNV-1a from the offset basis 2166136261 = 0x811C9DC5.
hash_string(str) == FnvFrom([hi |-> 33052, lo |-> 40389], str, 1)

\* hash_string(id) % bucket_count, without leaving 31 bits.
HashMod(h, bc) == ((((((h.hi % bc) * 256) % bc) * 256) % bc) + h.lo) % bc

DEFAULT_HASH_BUCKET_COUNT == 10007

\* map_device_csv: the bucket count chosen from the file size.
BucketCount(size) ==
    IF size \div 100 > 1000000 THEN 100003 ELSE DEFAULT_HASH_BUCKET_COUNT

\* The device id extract_device_id could not produce (it returns NULL).
NoDevice == <<NUL>>

RECURSIVE SkipColumns(_, _, _)
\* extract_device_id, "Pular ate a coluna desejada": the position after the
\* n-th pipe found from p on, or NULL when strchr runs out of pipes.
SkipColumns(mem, p, n) ==
    IF n = 0 THEN p
    ELSE LET q == strchr(mem, p, PIPE)
         IN  IF q = NULL THEN NULL ELSE SkipColumns(mem, q + 1, n - 1)

\* extract_device_id(line, device_column): the copied id, or NoDevice.
extract_device_id(mem, line, column) ==
    LET p == SkipColumns(mem, line, column)
    IN  IF p = NULL THEN NoDevice
        ELSE LET e1  == strchr(mem, p, PIPE)
                 e2  == strchr(mem, p, LF)
                 end == IF e1 # NULL THEN e1
                        ELSE IF e2 # NULL THEN e2 ELSE StrEnd(mem, p)
             IN  SubSeq(mem, p, end - 1)

\* Index in the table of the entry for device_id, or 0: the walk along the
\* chain of the id's bucket (ids are unique in the table).
FindEntry(table, device_id) ==
    LET hits == {k \in 1..Len(table) : table[k].device_id = device_id}
    IN  IF hits = {} THEN 0 ELSE Min(hits)

\* device_hash_table_add_line: the holder of hash_mutex when it returns. The
\* calling thread locks it once the id has been extracted and unlocks it
\* before each of the returns that follow.
HashMutexAfterAddLine(holder, device_id) ==
    IF device_id = NoDevice THEN holder ELSE NULL

\* device_hash_table_add_line storing the new line pointer in front of the
\* ones the entry already holds.
device_hash_table_add_line_front(table, mem, size, line, column) ==
    LET device_id == extract_device_id(mem, line, column)
        k == FindEntry(table, device_id)
    IN  IF device_id = NoDevice THEN table
        ELSE IF k = 0
        THEN Append(table,
                    [device_id |-> device_id,
                     bucket |-> HashMod(hash_string(device_id), BucketCount(size)),
                     lines |-> <<line>>])
        ELSE [table EXCEPT ![k].lines = <<line>> \o @]

\* device_hash_table_add_line: the table after the call.
device_hash_table_add_line(table, mem, size, line, column) ==
    LET device_id == extract_device_id(mem, line, column)
        k == FindEntry(table, device_id)
    IN  IF device_id = NoDevice THEN table
        ELSE IF k = 0
        THEN Append(table,
                    [device_id |-> device_id,
                     bucket |-> HashMod(hash_string(device_id), BucketCount(size)),
                     lines |-> <<line>>])
        ELSE [table EXCEPT ![k].lines = Append(@, line)]

\* device_hash_table_get_lines: the line pointers of device_id (empty when
\* the id is not in the table).
device_hash_table_get_lines(table, device_id) ==
    LET k == FindEntry(table, device_id)
    IN  IF k = 0 THEN <<>> ELSE table[k].lines

\* A new entry is linked at the head of its bucket's chain, so within one
\* bucket the entry inserted last is met first.
EntryBefore(table, a, b) ==
    \/ table[a].bucket < table[b].bucket
    \/ table[a].bucket = table[b].bucket /\ a > b

RECURSIVE WalkBuckets(_, _)
WalkBuckets(table, left) ==
    IF left = {} THEN <<>>
    ELSE LET a == CHOOSE x \in left : \A y \in left \ {x} : EntryBefore(table, x, y)
         IN  <<table[a].device_id>> \o WalkBuckets(table, left \ {a})

\* device_hash_table_get_all_devices: ids bucket by bucket, chain by chain.
device_hash_table_get_all_devices(table) == WalkBuckets(table, 1..Len(table))


\* ------------------------------------------------------------- partitioner
Swap(a, j) == [a EXCEPT ![j] = a[j + 1], ![j + 1] = a[j]]

RECURSIVE BubbleInner(_, _, _)
\* The inner loop of the bubble sort, j = 1 .. last (1-based).
BubbleInner(a, j, last) ==
    IF j > last THEN a
    ELSE BubbleInner(IF a[j].line_count < a[j + 1].line_count
                     THEN Swap(a, j) ELSE a,
                     j + 1, last)

RECURSIVE BubbleOuter(_, _)
\* The outer loop, i = 0 .. device_count - 2.
BubbleOuter(a, i) ==
    IF i >= Len(a) - 1 THEN a
    ELSE BubbleOuter(BubbleInner(a, 1, Len(a) - i - 1), i + 1)

\* The DeviceInfo array as filled from the table, then sorted.
SortedDevices(table) ==
    LET ids == device_hash_table_get_all_devices(table)
        infos == [k \in 1..Len(ids) |->
                    [device_id |-> ids[k],
                     line_count |-> Len(device_hash_table_get_lines(table, ids[k]))]]
    IN  BubbleOuter(infos, 0)

RECURSIVE MinScanLastMin(_, _, _)
\* The scan with <= in place of <: a tie moves on to the higher index.
MinScanLastMin(allocs, t, best) ==
    IF t > Len(allocs) THEN best
    ELSE MinScanLastMin(allocs, t + 1,
                        IF allocs[t].total_lines <= allocs[best].total_lines
                        THEN t ELSE best)

RECURSIVE MinScan(_, _, _)
\* "Encontrar a thread com a menor quantidade de linhas": t runs upwards and
\* replaces the candidate only on a strictly smaller total.
MinScan(allocs, t, best) ==
    IF t > Len(allocs) THEN best
    ELSE MinScan(allocs, t + 1,
                 IF allocs[t].total_lines < allocs[best].total_lines
                 THEN t ELSE best)

\* The scan left out: min_lines_thread keeps its initial value, thread 0.
min_lines_thread_initial(allocs) == 1

\* The index of the thread the scan ends on.
min_lines_thread(allocs) == MinScan(allocs, 2, 1)

\* One iteration of the greedy loop: the allocations after device dev is
\* given to the thread found by the scan.  (The array of a thread grows by
\* realloc; allocation failure is not modelled, so there is always room.)
AssignTo(allocs, dev) ==
    LET m == min_lines_thread(allocs)
    IN  [allocs EXCEPT ![m] =
            [total_lines |-> @.total_lines + dev.line_count,
             assigned_devices |-> Append(@.assigned_devices, dev)]]

RECURSIVE Flatten(_)
Flatten(ss) == IF ss = <<>> THEN <<>> ELSE Head(ss) \o Flatten(Tail(ss))

\* The staging state of one thread's chunk: the reusable buffer (buf), the
\* list of saved buffers with its capacity, and, as history, the line
\* pointers whose bytes each of them holds (buf_rows, list_rows).
EmptyStage ==
    [buf |-> <<>>, buf_rows |-> <<>>, list |-> <<>>, list_rows |-> <<>>,
     capacity |-> 0]

\* "Verificar se precisamos usar um novo buffer": the buffer is saved in the
\* list (expanded first when full) and reset.
Flush(st) ==
    LET cap == IF Len(st.list) >= st.capacity
               THEN (IF st.capacity = 0 THEN 4 ELSE st.capacity * 2)
               ELSE st.capacity
        room == Len(st.list) < cap
    IN  [buf |-> <<>>, buf_rows |-> <<>>,
         list |-> IF room THEN Append(st.list, st.buf) ELSE st.list,
         list_rows |-> IF room THEN Append(st.list_rows, st.buf_rows)
                       ELSE st.list_rows,
         capacity |-> cap]

\* The body of that loop without "Adicionar nova linha se necessario".
StageLineUnclosed(st, data, line) ==
    LET file_end == Len(data) + 1
    IN  IF ~(line >= 1 /\ line < file_end) THEN st
        ELSE LET nl == memchr(data, line, LF, file_end - line)
                 line_end == IF nl = NULL THEN file_end ELSE nl
                 line_len == line_end - line
                 s1 == IF Len(st.buf) + line_len + 2 >= BUFFER_SIZE
                       THEN Flush(st) ELSE st
             IN  [s1 EXCEPT !.buf = s1.buf \o SubSeq(data, line, line_end - 1),
                            !.buf_rows = Append(s1.buf_rows, line)]

\* The body of the loop over one device's lines, for one line pointer.
StageLine(st, data, line) ==
    LET file_end == Len(data) + 1
    IN  IF ~(line >= 1 /\ line < file_end) THEN st
        ELSE LET nl == memchr(data, line, LF, file_end - line)
                 line_end == IF nl = NULL THEN file_end ELSE nl
                 line_len == line_end - line
                 s1 == IF Len(st.buf) + line_len + 2 >= BUFFER_SIZE
                       THEN Flush(st) ELSE st
                 copied == s1.buf \o SubSeq(data, line, line_end - 1)
                 \* "Adicionar nova linha se necessario"
                 closed == IF copied = <<>> \/ copied[Len(copied)] # LF
                           THEN Append(copied, LF) ELSE copied
             IN  [s1 EXCEPT !.buf = closed,
                            !.buf_rows = Append(s1.buf_rows, line)]

RECURSIVE StageLines(_, _, _, _)
StageLines(st, data, lines, j) ==
    IF j > Len(lines) THEN st
    ELSE StageLines(StageLine(st, data, lines[j]), data, lines, j + 1)

RECURSIVE StageDevices(_, _, _, _, _)
\* The loop over the devices assigned to one thread.
StageDevices(st, data, table, assigned, d) ==
    IF d > Len(assigned) THEN st
    ELSE StageDevices(
            StageLines(st, data,
                       device_hash_table_get_lines(table, assigned[d].device_id), 1),
            data, table, assigned, d + 1)

\* "Adicionar o ultimo buffer usado a lista se tiver conteudo".
SaveLast(st) ==
    IF Len(st.buf) > 0 /\ Len(st.list) < st.capacity
    THEN [st EXCEPT !.list = Append(st.list, st.buf),
                    !.list_rows = Append(st.list_rows, st.buf_rows)]
    ELSE st

NoChunk == [made |-> FALSE]

\* One iteration of the loop over the threads: the chunk handed to the queue,
\* or NoChunk when final_chunk stays NULL.
BuildChunk(data, table, hdr, alloc) ==
    LET st == SaveLast(StageDevices(EmptyStage, data, table,
                                    alloc.assigned_devices, 1))
        bytes == Flatten(st.list)
    IN  IF Len(bytes) > 0
        THEN [made |-> TRUE, slice |-> bytes, slice_len |-> Len(bytes),
              header |-> hdr, rows |-> Flatten(st.list_rows)]
        ELSE IF Len(alloc.assigned_devices) = 0
        THEN [made |-> TRUE, slice |-> <<>>, slice_len |-> 0,
              header |-> hdr, rows |-> <<>>]
        ELSE NoChunk

\* thread_safe_queue_enqueue: the count field once the node is linked.
CountAfterEnqueue(count) == count + 1

\* No enqueue and no dequeue has been made on a queue just created.
NoOps == [enqueued |-> 0, dequeued |-> 0]

\* thread_safe_queue_enqueue, _dequeue and _get_count: the holder of the
\* queue's mutex when they return. Each locks it around its one operation.
QueueMutexAfter(holder) == NULL

\* thread_safe_queue_enqueue: the node is linked at the tail.
thread_safe_queue_enqueue(q, chunk) ==
    Append(q, [slice |-> chunk.slice, slice_len |-> chunk.slice_len,
               header |-> chunk.header, rows |-> chunk.rows])


\* ------------------------------------------------------------------ inputs
\* The header line of the input files, and the data lines they are made of.
HeaderLine == <<"i", PIPE, "d">>

LineTemplates ==
    { <<"A", PIPE, "1">>, <<"1", PIPE, "B", PIPE>>, <<"C">>, <<>> }

RECURSIVE JoinLines(_, _)
\* The lines separated by LF, the last one closed by LF when trailing.
JoinLines(ls, trailing) ==
    IF ls = <<>> THEN <<>>
    ELSE IF Len(ls) = 1
    THEN Head(ls) \o (IF trailing THEN <<LF>> ELSE <<>>)
    ELSE Head(ls) \o <<LF>> \o JoinLines(Tail(ls), trailing)

\* Six rows of three devices (A three times, B twice, C once).
ScenarioLines ==
    << <<"A", PIPE, "1">>, <<"B", PIPE, "2">>, <<"A", PIPE, "3">>,
       <<"C", PIPE, "4">>, <<"A", PIPE, "5">>, <<"B", PIPE, "6">> >>

\* One row each of two devices, A before B in the file.
TieLines == << <<"A", PIPE, "1">>, <<"B", PIPE, "2">> >>

Files ==
    { HeaderLine \o <<LF>> \o JoinLines(ls, tr) :
        ls \in UNION { [1..k -> LineTemplates] : k \in 0..MaxLines },
        tr \in BOOLEAN }
    \cup { HeaderLine \o <<LF>> \o JoinLines(ScenarioLines, TRUE) }
    \cup { HeaderLine \o <<LF>> \o JoinLines(TieLines, TRUE) }
    \cup { HeaderLine }

\* What a read past the end of the mapping can meet before a NUL: nothing
\* (the zero fill of the last page) or bytes of whatever is mapped next.
PadSet == { <<>>, <<PIPE>> }

\* -------------------------------------------- index build and partitioner
InitPart ==
    /\ mapped_data \in Files
    /\ pad \in PadSet
    /\ device_column \in 0..MaxColumn
    /\ num_threads \in 1..MaxThreads
    /\ pc = "map"
    /\ curr = 0
    /\ device_table = <<>>
    /\ data_count = 0
    /\ devices = <<>>
    /\ dev_i = 0
    /\ thread_allocations = <<>>
    /\ thr_t = 0
    /\ queue = <<>>
    /\ queue_count = 0
    /\ queue_ops = NoOps
    /\ chunks_created = 0
    /\ header = <<>>
    /\ run = 1
    /\ first_run = <<>>

\* map_device_csv up to the loop: the header is split off at the first LF
\* that strchr finds and copied; a file without one is rejected.
MapDeviceCsvOpen ==
    /\ pc = "map"
    /\ LET mem == Mem(mapped_data, pad)
           header_end == strchr(mem, 1, LF)
       IN  IF Len(mapped_data) = 0 \/ header_end = NULL
           THEN /\ pc' = "map_failed"
                /\ UNCHANGED <<curr, header>>
           ELSE /\ header' = SubSeq(mem, 1, header_end - 1)
                /\ curr' = header_end + 1
                /\ pc' = IF header_end + 1 < Len(mapped_data) + 1
                         THEN "scan" ELSE "mapped"
    /\ device_table' = <<>>
    /\ data_count' = 0
    /\ UNCHANGED <<mapped_data, pad, device_column, num_threads, devices,
                   dev_i, thread_allocations, thr_t, queue, queue_count, queue_ops, chunks_created,
                   run, first_run>>
    /\ UNCHANGED notPart
    /\ UNCHANGED mutex

\* One iteration of map_device_csv's loop over the lines.
MapDeviceCsvLine ==
    /\ pc = "scan"
    /\ LET mem == Mem(mapped_data, pad)
           end == Len(mapped_data) + 1
           nl == strchr(mem, curr, LF)
           line_end == IF nl = NULL THEN end ELSE nl
       IN  /\ IF line_end > curr
              THEN /\ data_count' = data_count + 1
                   /\ device_table' =
                        device_hash_table_add_line(device_table, mem,
                            Len(mapped_data), curr, device_column)
                   /\ mutex.hash = NULL
                   /\ mutex' = [mutex EXCEPT !.hash =
                        HashMutexAfterAddLine(@,
                            extract_device_id(mem, curr, device_column))]
              ELSE UNCHANGED <<data_count, device_table, mutex>>
           /\ curr' = line_end + 1
           /\ pc' = IF line_end = end \/ line_end + 1 >= end
                    THEN "mapped" ELSE "scan"
    /\ UNCHANGED <<mapped_data, pad, device_column, num_threads, devices,
                   dev_i, thread_allocations, thr_t, queue, queue_count, queue_ops, chunks_created,
                   header, run, first_run>>
    /\ UNCHANGED notPart

\* partition_csv_by_device_threaded up to the greedy loop: the devices are
\* enumerated and sorted, the allocations zeroed; without devices it returns 0.
PartitionBegin ==
    /\ pc = "mapped"
    /\ num_threads > 0
    /\ LET sorted == SortedDevices(device_table)
       IN  IF Len(sorted) = 0
           THEN /\ pc' = "returned"
                /\ chunks_created' = 0
                /\ UNCHANGED <<devices, dev_i, thread_allocations>>
           ELSE /\ devices' = sorted
                /\ thread_allocations' =
                     [t \in 1..num_threads |->
                        [total_lines |-> 0, assigned_devices |-> <<>>]]
                /\ dev_i' = 1
                /\ pc' = "assign"
                /\ UNCHANGED chunks_created
    /\ UNCHANGED <<mapped_data, pad, device_column, num_threads, curr,
                   device_table, data_count, thr_t, queue, queue_count, queue_ops, header, run,
                   first_run>>
    /\ UNCHANGED notPart
    /\ UNCHANGED mutex

\* One iteration of the greedy loop.
AssignDevice ==
    /\ pc = "assign"
    /\ dev_i <= Len(devices)
    /\ thread_allocations' = AssignTo(thread_allocations, devices[dev_i])
    /\ dev_i' = dev_i + 1
    /\ IF dev_i = Len(devices)
       THEN pc' = "emit" /\ thr_t' = 1 /\ chunks_created' = 0
       ELSE UNCHANGED <<pc, thr_t, chunks_created>>
    /\ UNCHANGED <<mapped_data, pad, device_column, num_threads, curr,
                   device_table, data_count, devices, queue, queue_count, queue_ops, header, run,
                   first_run>>
    /\ UNCHANGED notPart
    /\ UNCHANGED mutex

\* One iteration of the loop that builds and enqueues a thread's chunk; after
\* the last one the function returns chunks_created.
EmitChunk ==
    /\ pc = "emit"
    /\ thr_t <= num_threads
    /\ LET chunk == BuildChunk(mapped_data, device_table, header,
                               thread_allocations[thr_t])
       IN  IF chunk.made
           THEN /\ queue' = thread_safe_queue_enqueue(queue, chunk)
                /\ queue_count' = CountAfterEnqueue(queue_count)
                /\ queue_ops' = [queue_ops EXCEPT !.enqueued = @ + 1]
                /\ chunks_created' = chunks_created + 1
                /\ mutex.queue = NULL
                /\ mutex' = [mutex EXCEPT !.queue = QueueMutexAfter(@)]
           ELSE UNCHANGED <<queue, queue_count, queue_ops, chunks_created, mutex>>
    /\ thr_t' = thr_t + 1
    /\ pc' = IF thr_t = num_threads THEN "returned" ELSE "emit"
    /\ UNCHANGED <<mapped_data, pad, device_column, num_threads, curr,
                   device_table, data_count, devices, dev_i,
                   thread_allocations, header, run, first_run>>
    /\ UNCHANGED notPart

\* The program is run a second time on the same file with the same N; only
\* what lies after the mapping in memory may differ.
SecondRun ==
    /\ pc \in {"returned", "map_failed"}
    /\ run = 1
    /\ run' = 2
    /\ first_run' = [k \in 1..Len(queue) |-> queue[k].slice]
    /\ pad' \in PadSet
    /\ pc' = "map"
    /\ curr' = 0
    /\ device_table' = <<>>
    /\ data_count' = 0
    /\ devices' = <<>>
    /\ dev_i' = 0
    /\ thread_allocations' = <<>>
    /\ thr_t' = 0
    /\ queue' = <<>>
    /\ queue_count' = 0
    /\ queue_ops' = NoOps
    /\ chunks_created' = 0
    /\ header' = <<>>
    /\ UNCHANGED <<mapped_data, device_column, num_threads>>
    /\ UNCHANGED notPart
    /\ UNCHANGED mutex

NextPart ==
    \/ MapDeviceCsvOpen
    \/ MapDeviceCsvLine
    \/ PartitionBegin
    \/ AssignDevice
    \/ EmitChunk
    \/ SecondRun

\* The scanner takes no part in the index build and the partitioner.
\* The buffer has not been scanned before.
NoScan == [scanned |-> FALSE, line_count |-> 0, line_indices |-> <<>>]

IdleScan ==
    /\ s_data = <<>>
    /\ num_processors = 0
    /\ s_pc = "idle"
    /\ s_i = 0
    /\ current_offset = 0
    /\ thread_data = <<>>
    /\ t_pc = <<>>
    /\ t_end = <<>>
    /\ total_line_count = 0
    /\ global_index = <<>>
    /\ total_lines = 0
    /\ first_scan = NoScan

\* What main owns from map_device_csv on, before any of it is acquired.
NoHeap ==
    [r \in {"mapped_data", "header", "device_table", "queue", "threads",
            "args", "line_counts", "results", "result_sizes"} |-> "none"]

\* Neither mutex is held: a holder is the number of a worker, or NULL.
NoHolder == [hash |-> NULL, queue |-> NULL]

\* main has not got past the partitioner.
IdleWork ==
    /\ m_pc = "idle"
    /\ exit_status = EXIT_SUCCESS
    /\ num_chunks = 0
    /\ m_total_lines = 0
    /\ w_pc = <<>>
    /\ w_slice = <<>>
    /\ w_total_lines = <<>>
    /\ line_counts = <<>>
    /\ sock_file = <<>>
    /\ socket_fd = <<>>
    /\ pending = <<>>
    /\ stream = <<>>
    /\ peer_closed = <<>>
    /\ p_state = <<>>
    /\ p_behaviour = <<>>
    /\ p_input = <<>>
    /\ send_rc = <<>>
    /\ p_output = <<>>
    /\ behaviours = {}
    /\ faults = {}
    /\ device_column_name = <<>>
    /\ file_mapped = FALSE
    /\ queue_created = FALSE
    /\ total_memory_freed = <<>>
    /\ chunks_processed = <<>>
    /\ chunks_dropped = <<>>
    /\ final_result_size = <<>>
    /\ m_heap = NoHeap
    /\ stale_reads = {}
    /\ mutex = NoHolder

Init == InitPart /\ IdleScan /\ IdleWork

Next == NextPart

Spec == Init /\ [][Next]_vars


\* ------------------------------------------------- properties: partitioner
Range(f) == {f[x] : x \in DOMAIN f}

SeqToBag(sq) == [x \in Range(sq) |-> Cardinality({k \in DOMAIN sq : sq[k] = x})]

RECURSIVE SumSeq(_)
SumSeq(sq) == IF sq = <<>> THEN 0 ELSE Head(sq) + SumSeq(Tail(sq))

RECURSIVE SplitLines(_)
\* The lines of a byte sequence: each LF closes a line; bytes after the last
\* LF form a final line.
SplitLines(bytes) ==
    IF bytes = <<>> THEN <<>>
    ELSE LET nl == memchr(bytes, 1, LF, Len(bytes))
         IN  IF nl = NULL THEN <<bytes>>
             ELSE <<SubSeq(bytes, 1, nl - 1)>>
                  \o SplitLines(SubSeq(bytes, nl + 1, Len(bytes)))

\* The bytes of the line that starts at position line of the file.
LineBytes(data, line) ==
    LET nl == memchr(data, line, LF, Len(data) + 1 - line)
    IN  SubSeq(data, line, (IF nl = NULL THEN Len(data) + 1 ELSE nl) - 1)

\* Every line pointer the device index holds.
IndexedLines == Flatten([k \in 1..Len(device_table) |-> device_table[k].lines])

QueueBytes == Flatten([k \in 1..Len(queue) |-> queue[k].slice])

\* C1 -- Chunking completeness: once the partitioner has returned, the bytes
\* of the chunks it enqueued, concatenated in chunk order and split into
\* lines, are exactly the data lines the device index holds, each once.
ChunkingCompleteness ==
    pc = "returned" =>
        SeqToBag(SplitLines(QueueBytes))
            = SeqToBag([k \in 1..Len(IndexedLines) |->
                            LineBytes(mapped_data, IndexedLines[k])])

\* C2 -- Worker cardinality: the partitioner enqueues exactly N chunks and
\* returns N, whatever the number of devices.
WorkerCardinality ==
    pc = "returned" =>
        chunks_created = num_threads /\ Len(queue) = num_threads

\* The rows of entry e lie in chunk q, next to each other.
RowsTogether(e, q) ==
    LET at == {k \in 1..Len(q.rows) : \E j \in 1..Len(e.lines) : q.rows[k] = e.lines[j]}
    IN  /\ Cardinality(at) = Len(e.lines)
        /\ \A k \in Min(at)..Max(at) : k \in at

\* C3 -- No-split guarantee: for every device of the index exactly one chunk
\* holds all its rows, and holds them contiguously.
NoSplit ==
    pc = "returned" =>
        \A d \in 1..Len(device_table) :
            Cardinality({k \in 1..Len(queue) :
                            RowsTogether(device_table[d], queue[k])}) = 1

\* The starts of the non-empty data lines of the file (the lines
\* map_device_csv counts in data_count).
DataLineStarts ==
    LET first == memchr(mapped_data, 1, LF, Len(mapped_data))
    IN  IF first = NULL THEN {}
        ELSE {p \in (first + 1)..Len(mapped_data) :
                mapped_data[p - 1] = LF /\ mapped_data[p] # LF}

PipesIn(line) == Cardinality({k \in 1..Len(line) : line[k] = PIPE})

\* A data line is malformed when it has fewer pipes than the device column.
Malformed(p) == PipesIn(LineBytes(mapped_data, p)) < device_column

ListsHolding(p) ==
    {d \in 1..Len(device_table) :
        \E j \in 1..Len(device_table[d].lines) : device_table[d].lines[j] = p}

\* C5 -- Device partition: in the finished index every well-formed data line
\* is in exactly one device's list, no line is in a list twice, and the list
\* lengths add up to the data lines minus the malformed ones.
DevicePartition ==
    pc \in {"mapped", "assign", "emit", "returned"} =>
        /\ \A p \in DataLineStarts :
                ~Malformed(p) => Cardinality(ListsHolding(p)) = 1
        /\ \A a, b \in 1..Len(IndexedLines) :
                IndexedLines[a] = IndexedLines[b] => a = b
        /\ Len(IndexedLines)
              = Cardinality(DataLineStarts)
                - Cardinality({p \in DataLineStarts : Malformed(p)})

\* The lowest-indexed thread among those with the smallest total_lines.
LowestLightest(allocs) ==
    CHOOSE m \in 1..Len(allocs) :
        /\ \A t \in 1..Len(allocs) : allocs[m].total_lines <= allocs[t].total_lines
        /\ \A t \in 1..(m - 1) : allocs[t].total_lines > allocs[m].total_lines

\* A step of the greedy loop gives the next device of the sorted array to the
\* lowest-indexed lightest thread, and to no other.
GreedyStep ==
    (pc = "assign" /\ dev_i' = dev_i + 1) =>
        LET m == LowestLightest(thread_allocations)
        IN  /\ thread_allocations'[m].assigned_devices
                 = Append(thread_allocations[m].assigned_devices, devices[dev_i])
            /\ \A t \in 1..num_threads :
                 t # m => thread_allocations'[t] = thread_allocations[t]

\* total_lines of a thread is the sum of the list lengths of its devices.
TotalsMatch ==
    pc \in {"assign", "emit", "returned"} =>
        \A t \in 1..Len(thread_allocations) :
            thread_allocations[t].total_lines
              = SumSeq([k \in 1..Len(thread_allocations[t].assigned_devices) |->
                          Len(device_hash_table_get_lines(device_table,
                                thread_allocations[t].assigned_devices[k].device_id))])

\* C6 -- LPT greedy assignment: each device, in sorted order, goes to the
\* thread with the smallest total_lines (the lowest index on a tie), and a
\* thread's total_lines is always the sum of its devices' line counts.
LPTGreedy == [][GreedyStep]_vars /\ []TotalsMatch

\* C6, the case at hand: counts 3, 2, 1 over two threads end as [A] and [B, C].
LPTGreedyWitness ==
    /\ pc = "emit"
    /\ num_threads = 2
    /\ [k \in 1..Len(devices) |-> devices[k].line_count] = <<3, 2, 1>>
    /\ [k \in 1..Len(thread_allocations[1].assigned_devices) |->
            thread_allocations[1].assigned_devices[k].device_id] = << <<"A">> >>
    /\ [k \in 1..Len(thread_allocations[2].assigned_devices) |->
            thread_allocations[2].assigned_devices[k].device_id]
         = << <<"B">>, <<"C">> >>
    /\ thread_allocations[1].total_lines = 3
    /\ thread_allocations[2].total_lines = 3

\* C7 -- Partition determinism: a second run on the same file with the same N
\* enqueues the same chunks, byte for byte and in the same order.
PartitionDeterminism ==
    (run = 2 /\ pc = "returned") =>
        first_run = [k \in 1..Len(queue) |-> queue[k].slice]


\* ----------------------------------------------------- parallel line scanner
\* calculate_block_size giving every thread the quotient, the last one
\* without the remainder.
calculate_block_size_even(thread_index, n_threads, total_size) ==
    IF n_threads <= 0 THEN 0 ELSE total_size \div n_threads

\* calculate_block_size (thread_index is 0-based).
calculate_block_size(thread_index, n_threads, total_size) ==
    IF n_threads <= 0 THEN 0
    ELSE IF thread_index = n_threads - 1
         THEN (total_size \div n_threads) + (total_size % n_threads)
         ELSE total_size \div n_threads

\* adjust_block_boundaries: the pointer after the first LF of the block that
\* starts at start and has size bytes, or the block's end when it has none.
AdjustedStart(data, start, size) ==
    LET nl == memchr(data, start, LF, size)
    IN  IF nl = NULL THEN start + size ELSE nl + 1

\* A ThreadData as allocate_thread_resources leaves it.
FreshThreadData ==
    [start |-> 0, size |-> 0, line_count |-> 0, line_indices |-> <<>>]

RECURSIVE ScanBlock(_, _, _, _, _)
\* The loop of count_lines_worker from p to end: [line_count, line_indices].
ScanBlock(data, p, end, count, indices) ==
    IF ~(p < end) THEN [line_count |-> count, line_indices |-> indices]
    ELSE LET nl == memchr(data, p, LF, end - p)
         IN  IF nl # NULL
             THEN ScanBlock(data, nl + 1, end, count + 1,
                            IF nl + 1 < end THEN Append(indices, nl + 1)
                            ELSE indices)
             ELSE [line_count |-> count + 1, line_indices |-> indices]

\* count_lines_worker on the block [start, end).
count_lines_worker(data, start, end) ==
    ScanBlock(data, start, end, 0, IF start < end THEN <<start>> ELSE <<>>)

RECURSIVE CountFrom(_, _, _)
CountFrom(data, p, count) ==
    IF ~(p < Len(data) + 1) THEN count
    ELSE LET nl == memchr(data, p, LF, Len(data) + 1 - p)
         IN  IF nl # NULL THEN CountFrom(data, nl + 1, count + 1)
             ELSE count + 1

\* count_lines_in_memory.
count_lines_in_memory(data) == IF Len(data) = 0 THEN 0 ELSE CountFrom(data, 1, 0)

RECURSIVE IndexFrom(_, _, _, _)
\* The index loop of the sequential branch.
IndexFrom(data, p, indices, line_count) ==
    IF ~(p < Len(data) + 1 /\ Len(indices) < line_count) THEN indices
    ELSE LET nl == memchr(data, p, LF, Len(data) + 1 - p)
         IN  IF nl # NULL /\ nl + 1 < Len(data) + 1
             THEN IndexFrom(data, nl + 1, Append(indices, nl + 1), line_count)
             ELSE indices

SequentialIndex(data) ==
    LET line_count == count_lines_in_memory(data)
    IN  IF line_count > 0 THEN IndexFrom(data, 1, <<1>>, line_count) ELSE <<>>

\* join_threads_and_collect_results: the sum of the threads' line counts.
CollectResults(td) == SumSeq([k \in 1..Len(td) |-> td[k].line_count])

\* merge_line_indices: the threads' indices in thread order, keeping the
\* pointers that lie in the thread's block as it is at the merge.
merge_line_indices(td) ==
    Flatten([k \in 1..Len(td) |->
        SelectSeq(td[k].line_indices,
                  LAMBDA q : q >= td[k].start /\ q < td[k].start + td[k].size)])

\* correct_duplicate_lines: the thread boundaries it takes for a line
\* counted twice.
correct_duplicate_lines(td, data) ==
    IF Len(td) <= 1 THEN 0
    ELSE Cardinality({i \in 2..Len(td) :
            LET prev_end == td[i - 1].start + td[i - 1].size - 1
            IN  /\ prev_end > 1
                /\ data[prev_end] # LF
                /\ td[i].start < 1 + Len(data)
                /\ data[td[i].start] # LF})

ScanInputs == UNION { [1..n -> {"a", LF}] : n \in 0..MaxScanLen }

IdlePart ==
    /\ mapped_data = <<>>
    /\ pad = <<>>
    /\ device_column = 0
    /\ num_threads = 0
    /\ pc = "idle"
    /\ curr = 0
    /\ device_table = <<>>
    /\ data_count = 0
    /\ devices = <<>>
    /\ dev_i = 0
    /\ thread_allocations = <<>>
    /\ thr_t = 0
    /\ queue = <<>>
    /\ queue_count = 0
    /\ queue_ops = NoOps
    /\ chunks_created = 0
    /\ header = <<>>
    /\ run = 0
    /\ first_run = <<>>

InitScan ==
    /\ IdlePart
    /\ IdleWork
    /\ s_data \in ScanInputs
    /\ num_processors \in 1..MaxThreads
    /\ s_pc = "call"
    /\ s_i = 0
    /\ current_offset = 0
    /\ thread_data = <<>>
    /\ t_pc = <<>>
    /\ t_end = <<>>
    /\ total_line_count = 0
    /\ global_index = <<>>
    /\ total_lines = 0
    /\ first_scan = NoScan

\* count_lines_in_memory_parallel up to start_threads: nothing to do for an
\* empty buffer, a sequential scan for a small one, else the thread
\* resources are allocated.
ScanBegin ==
    /\ s_pc = "call"
    /\ IF Len(s_data) = 0
       THEN /\ s_pc' = "done"
            /\ total_line_count' = 0
            /\ UNCHANGED <<global_index, total_lines, thread_data, t_pc, t_end>>
       ELSE IF Len(s_data) < SMALL_FILE_LIMIT
       THEN /\ s_pc' = "done"
            /\ total_line_count' = count_lines_in_memory(s_data)
            /\ global_index' = SequentialIndex(s_data)
            /\ total_lines' = Len(SequentialIndex(s_data))
            /\ UNCHANGED <<thread_data, t_pc, t_end>>
       ELSE LET actual_threads == IF Len(s_data) < TWO_THREAD_LIMIT
                                  THEN 2 ELSE num_processors
            IN  /\ thread_data' = [k \in 1..actual_threads |-> FreshThreadData]
                /\ t_pc' = [k \in 1..actual_threads |-> "none"]
                /\ t_end' = [k \in 1..actual_threads |-> 0]
                /\ s_pc' = "start"
                /\ UNCHANGED <<total_line_count, global_index, total_lines>>
    /\ UNCHANGED <<s_data, num_processors, s_i, current_offset, first_scan>>
    /\ UNCHANGED notScan
    /\ UNCHANGED mutex

\* One iteration of start_threads: block i is initialised, realigned (which
\* also grows block i - 1, whose thread is already running) and its thread
\* is created.
StartThread ==
    /\ s_pc = "start"
    /\ s_i < Len(thread_data)
    /\ LET i == s_i + 1
           block_size == calculate_block_size(s_i, Len(thread_data), Len(s_data))
           start0 == 1 + current_offset
           ptr == IF s_i > 0 THEN AdjustedStart(s_data, start0, block_size)
                  ELSE start0
           adjustment == ptr - start0
           td1 == [thread_data EXCEPT
                     ![i] = [start |-> ptr, size |-> block_size - adjustment,
                             line_count |-> 0, line_indices |-> <<>>]]
           td2 == IF s_i > 0
                  THEN [td1 EXCEPT ![i - 1].size = @ + adjustment]
                  ELSE td1
       IN  /\ thread_data' = td2
           /\ current_offset' = (ptr - 1) + (block_size - adjustment)
    /\ t_pc' = [t_pc EXCEPT ![s_i + 1] = "created"]
    /\ s_i' = s_i + 1
    /\ s_pc' = IF s_i + 1 = Len(thread_data) THEN "join" ELSE "start"
    /\ UNCHANGED <<s_data, num_processors, t_end, total_line_count,
                   global_index, total_lines, first_scan>>
    /\ UNCHANGED notScan
    /\ UNCHANGED mutex

\* count_lines_worker, "end = p + data->size": thread k reads its block.
WorkerRead(k) ==
    /\ t_pc[k] = "created"
    /\ t_end' = [t_end EXCEPT ![k] = thread_data[k].start + thread_data[k].size]
    /\ t_pc' = [t_pc EXCEPT ![k] = "read"]
    /\ UNCHANGED <<s_data, num_processors, s_pc, s_i, current_offset,
                   thread_data, total_line_count, global_index, total_lines,
                   first_scan>>
    /\ UNCHANGED notScan
    /\ UNCHANGED mutex

\* count_lines_worker, the scan: thread k counts and indexes [start, end)
\* and stores its results.
WorkerScan(k) ==
    /\ t_pc[k] = "read"
    /\ LET r == count_lines_worker(s_data, thread_data[k].start, t_end[k])
       IN  thread_data' = [thread_data EXCEPT
                             ![k].line_count = r.line_count,
                             ![k].line_indices = r.line_indices]
    /\ t_pc' = [t_pc EXCEPT ![k] = "done"]
    /\ UNCHANGED <<s_data, num_processors, s_pc, s_i, current_offset, t_end,
                   total_line_count, global_index, total_lines, first_scan>>
    /\ UNCHANGED notScan
    /\ UNCHANGED mutex

\* The rest of count_lines_in_memory_parallel: the threads are joined, the
\* indices merged and the count corrected.
JoinAndMerge ==
    /\ s_pc = "join"
    /\ \A k \in 1..Len(t_pc) : t_pc[k] = "done"
    /\ LET merged == merge_line_indices(thread_data)
       IN  /\ global_index' = merged
           /\ total_lines' = Len(merged)
    /\ total_line_count' = CollectResults(thread_data)
                           - correct_duplicate_lines(thread_data, s_data)
    /\ s_pc' = "done"
    /\ UNCHANGED <<s_data, num_processors, s_i, current_offset, thread_data,
                   t_pc, t_end, first_scan>>
    /\ UNCHANGED notScan
    /\ UNCHANGED mutex

\* The caller scans the same buffer a second time with the same number of
\* processors, keeping what the first scan returned.
ScanAgain ==
    /\ s_pc = "done"
    /\ ~first_scan.scanned
    /\ first_scan' = [scanned |-> TRUE, line_count |-> total_line_count,
                      line_indices |-> global_index]
    /\ s_pc' = "call"
    /\ s_i' = 0
    /\ current_offset' = 0
    /\ thread_data' = <<>>
    /\ t_pc' = <<>>
    /\ t_end' = <<>>
    /\ total_line_count' = 0
    /\ global_index' = <<>>
    /\ total_lines' = 0
    /\ UNCHANGED <<s_data, num_processors>>
    /\ UNCHANGED notScan
    /\ UNCHANGED mutex

NextScan ==
    \/ ScanBegin
    \/ StartThread
    \/ \E k \in 1..Len(t_pc) : WorkerRead(k)
    \/ \E k \in 1..Len(t_pc) : WorkerScan(k)
    \/ JoinAndMerge
    \/ ScanAgain

SpecScan == InitScan /\ [][NextScan]_vars

\* ----------------------------------------------------- properties: scanner
\* A naive sequential scan: the line starts, and as many lines.
NaiveIndex ==
    [k \in 1..Cardinality({p \in 1..Len(s_data) : p = 1 \/ s_data[p - 1] = LF}) |->
        CHOOSE p \in 1..Len(s_data) :
            /\ p = 1 \/ s_data[p - 1] = LF
            /\ Cardinality({q \in 1..(p - 1) : q = 1 \/ s_data[q - 1] = LF}) = k - 1]

\* C4 -- Scan completeness: whatever the thread count and the interleaving,
\* the count and the index returned equal those of a naive sequential scan.
ScanCompleteness ==
    s_pc = "done" =>
        /\ total_line_count = Len(NaiveIndex)
        /\ global_index = NaiveIndex
        /\ total_lines = Len(NaiveIndex)


\* ------------------------------------------------- workers and subprocesses
\* thread_safe_queue_dequeue: the count field once it has returned dq.
CountAfterDequeue(count, dq) == IF dq = 0 THEN count - 1 ELSE count

\* thread_safe_queue_get_count: the count field, read under the mutex.
thread_safe_queue_get_count(count) == count

\* thread_safe_queue_dequeue: the head node is unlinked; a non-zero result
\* tells the caller that the queue is empty.
thread_safe_queue_dequeue(q) ==
    IF q = <<>> THEN [dq |-> -1, chunk |-> [slice |-> <<>>, header |-> <<>>], rest |-> q]
    ELSE [dq |-> 0, chunk |-> [slice |-> Head(q).slice, header |-> Head(q).header],
          rest |-> Tail(q)]

\* establish_uds_server, by the first call that fails ("ok" when none does):
\* whether the socket file exists afterwards and whether a listening
\* descriptor is returned.
establish_uds_server(file, outcome) ==
    CASE outcome = "socket" -> [file |-> file, fd |-> FALSE]
      [] outcome = "bind"   -> [file |-> FALSE, fd |-> FALSE]
      [] outcome = "listen" -> [file |-> TRUE, fd |-> FALSE]
      [] OTHER              -> [file |-> TRUE, fd |-> TRUE]

\* The worker's slice variable when it holds no chunk (before the first
\* dequeue and after free).
FreedSlice == [slice |-> <<>>, header |-> <<>>]

\* cleanup_uds without its unlink: the descriptor is closed only.
cleanup_uds_close_only == [file |-> TRUE, fd |-> FALSE]

\* cleanup_uds: the descriptor is closed and the path unlinked.
cleanup_uds == [file |-> FALSE, fd |-> FALSE]

\* main: the thread id handed to the k-th worker it creates.
thread_id(k) == k - 1

\* generate_uds_path writing the same path whatever the id.
generate_uds_path_fixed(slice_id) == <<"/tmp/uds_slice_", 0, ".sock">>

\* generate_uds_path: "/tmp/uds_slice_%d.sock" printed with the id.
generate_uds_path(slice_id) == <<"/tmp/uds_slice_", slice_id, ".sock">>

\* worker_func: the path of the uds_info of the k-th worker.
uds_path(k) == generate_uds_path(thread_id(k))

\* The three parts in another order: the slice, an LF, the header.
ChunkMessageSliceFirst(chunk) == chunk.slice \o <<LF>> \o chunk.header

\* send_csv_chunk: what goes over the connection for one chunk.
ChunkMessage(chunk) == chunk.header \o <<LF>> \o chunk.slice

\* receive_processed_csv: the result of its single recv on a connection that
\* holds the bytes avail (0 when the peer closed an empty connection).
\* send_csv_chunk after its accept, for a queue of one chunk, when the first
\* `sends` of its three send calls succeed: the bytes written before the
\* close and the value returned.
send_csv_chunk(chunk, sends) ==
    [written |-> IF sends >= 3 THEN ChunkMessage(chunk)
                 ELSE IF sends = 2 THEN chunk.header \o <<LF>>
                 ELSE IF sends = 1 THEN chunk.header
                 ELSE <<>>,
     rc |-> IF sends >= 3 THEN 0 ELSE -1]

receive_processed_csv(avail, ok) ==
    IF ok THEN Min({Len(avail), RECV_BUFFER_SIZE - 1}) ELSE -1

\* worker_func: the LF count of the first received bytes of the buffer.
CountLF(buffer, received) ==
    Cardinality({j \in 1..received : buffer[j] = LF})

\* How an analysis subprocess may behave: echo its input; connect a second
\* time and close without writing; exit after reading; exit without ever
\* connecting.
Behaviours == {"echo", "silent", "abort", "never"}

ScenarioFile == HeaderLine \o <<LF>> \o JoinLines(ScenarioLines, TRUE)

WorkFiles ==
    { ScenarioFile,
      HeaderLine \o <<LF>> \o JoinLines(<< <<"A", PIPE, "1">>, <<"A", PIPE, "1">> >>, TRUE),
      HeaderLine \o <<LF>> \o JoinLines(<< <<"A", PIPE, "1">> >>, TRUE),
      HeaderLine \o <<LF>>,
      HeaderLine,
      <<"d", PIPE, PIPE, " ", "i", " ", LF, "A", PIPE, PIPE, "B", LF, "A", PIPE, PIPE, "B", LF>>,
      <<>> }

\* map_file with the size test left out.
map_file_unchecked(data) == [data |-> 1, mmap |-> TRUE]

\* map_file up to the line scan: nothing is mapped for an empty file, which
\* is rejected before mmap is called.
map_file(data) ==
    IF Len(data) = 0 THEN [data |-> NULL, mmap |-> FALSE]
    ELSE [data |-> 1, mmap |-> TRUE]

\* map_csv: the header main looks the column up in. With an LF in the file
\* it is a NUL-terminated copy of the first line; without one it is the
\* mapping itself, read as a C string.
CsvHeader(data, pd) ==
    LET first_newline == memchr(data, 1, LF, Len(data))
        mem == Mem(data, pd)
    IN  IF first_newline # NULL THEN SubSeq(data, 1, first_newline - 1)
        ELSE SubSeq(mem, 1, StrEnd(mem, 1) - 1)

RECURSIVE strtok(_, _)
\* The tokens strtok yields for a string: the non-empty runs of bytes other
\* than the delimiter.
strtok(str, delim) ==
    IF str = <<>> THEN <<>>
    ELSE IF Head(str) = delim THEN strtok(Tail(str), delim)
    ELSE LET cut == memchr(str, 1, delim, Len(str))
         IN  IF cut = NULL THEN <<str>>
             ELSE <<SubSeq(str, 1, cut - 1)>>
                  \o strtok(SubSeq(str, cut + 1, Len(str)), delim)

RECURSIVE SkipSpaces(_)
SkipSpaces(token) ==
    IF token # <<>> /\ Head(token) = " " THEN SkipSpaces(Tail(token)) ELSE token

RECURSIVE CutSpaces(_)
\* "while (end > token && *end == ' ') *end-- = 0".
CutSpaces(token) ==
    IF Len(token) > 1 /\ token[Len(token)] = " "
    THEN CutSpaces(SubSeq(token, 1, Len(token) - 1)) ELSE token

RECURSIVE FindToken(_, _, _)
FindToken(tokens, name, column_index) ==
    IF tokens = <<>> THEN -1
    ELSE IF CutSpaces(SkipSpaces(Head(tokens))) = name THEN column_index
    ELSE FindToken(Tail(tokens), name, column_index + 1)

\* find_device_column falling back to column 0 when the name is absent.
find_device_column_fallback(hdr, name) ==
    LET found == FindToken(strtok(hdr, PIPE), name, 0)
    IN  IF found < 0 THEN 0 ELSE found

\* find_device_column: the index of the first token that equals the name
\* once trimmed, or -1.
find_device_column(hdr, name) == FindToken(strtok(hdr, PIPE), name, 0)

\* The column names main is asked for.
ColumnNames == { <<"i">>, <<"x">> }

\* What follows the mapping is varied for the files that do not end with an
\* LF, the ones whose last line is read as a C string.
WorkPads(data) ==
    IF data # <<>> /\ data[Len(data)] = LF THEN { <<>> } ELSE PadSet

InitWork ==
    /\ mapped_data \in WorkFiles
    /\ pad \in WorkPads(mapped_data)
    /\ device_column_name \in ColumnNames
    /\ file_mapped = FALSE
    /\ queue_created = FALSE
    /\ total_memory_freed = <<>>
    /\ chunks_processed = <<>>
    /\ chunks_dropped = <<>>
    /\ final_result_size = <<>>
    /\ m_heap = NoHeap
    /\ stale_reads = {}
    /\ mutex = NoHolder
    /\ device_column = 0
    /\ num_threads \in 1..MaxWorkers
    /\ pc = "idle"
    /\ curr = 0
    /\ device_table = <<>>
    /\ data_count = 0
    /\ devices = <<>>
    /\ dev_i = 0
    /\ thread_allocations = <<>>
    /\ thr_t = 0
    /\ queue = <<>>
    /\ queue_count = 0
    /\ queue_ops = NoOps
    /\ chunks_created = 0
    /\ header = <<>>
    /\ run = 1
    /\ first_run = <<>>
    /\ IdleScan
    /\ m_pc = "start"
    /\ exit_status = EXIT_SUCCESS
    /\ num_chunks = 0
    /\ m_total_lines = 0
    /\ w_pc = <<>>
    /\ w_slice = <<>>
    /\ w_total_lines = <<>>
    /\ line_counts = <<>>
    /\ sock_file = <<>>
    /\ socket_fd = <<>>
    /\ pending = <<>>
    /\ stream = <<>>
    /\ peer_closed = <<>>
    /\ p_state = <<>>
    /\ p_behaviour = <<>>
    /\ p_input = <<>>
    /\ send_rc = <<>>
    /\ p_output = <<>>
    /\ behaviours = {}
    /\ faults = {}

\* main, map_csv: it gives up when map_file returned no data.
MainMapCsv ==
    /\ m_pc = "start"
    /\ LET r == map_file(mapped_data)
       IN  /\ file_mapped' = r.mmap
           /\ IF r.data = NULL
              THEN m_pc' = "exited" /\ exit_status' = EXIT_FAILURE
              ELSE m_pc' = "find_column" /\ UNCHANGED exit_status
    /\ UNCHANGED <<num_chunks, m_total_lines, w_pc, w_slice, w_total_lines,
                   line_counts, sock_file, socket_fd, pending, stream,
                   peer_closed, p_state, p_behaviour, p_input, send_rc, p_output,
                   behaviours, faults, device_column_name, queue_created>>
    /\ UNCHANGED <<partVars, scanVars>>
    /\ UNCHANGED <<tailVars, mutex>>

\* munmap: the mapping is gone when its address is passed; a call with
\* another address leaves it in place.
munmap(addr, mapped) == IF addr = NULL THEN mapped ELSE FALSE

\* unmap_csv: the header is freed and set to NULL, and it is this NULL that
\* is then passed to munmap as the address of the mapping.
unmap_csv(csv) ==
    LET freed_header == NULL
    IN  [header |-> NULL, mmap |-> munmap(freed_header, csv.mmap)]

\* main, find_device_column and unmap_csv: without the column it gives up,
\* else map_device_csv is called with the index found. unmap_csv frees the
\* header, which for a file without LF is the mapping and no heap block:
\* the C library may abort the process there.
MainFindColumn ==
    /\ m_pc = "find_column"
    /\ LET found == find_device_column(CsvHeader(mapped_data, pad),
                                       device_column_name)
           heap_header == memchr(mapped_data, 1, LF, Len(mapped_data)) # NULL
       IN  \/ /\ found < 0
              /\ m_pc' = "exited"
              /\ exit_status' = EXIT_FAILURE
              /\ file_mapped' = unmap_csv([header |-> 1, mmap |-> file_mapped]).mmap
              /\ UNCHANGED <<device_column, pc>>
           \/ /\ found >= 0
              /\ m_pc' = "index"
              /\ device_column' = found
              /\ pc' = "map"
              /\ file_mapped' = unmap_csv([header |-> 1, mmap |-> file_mapped]).mmap
              /\ UNCHANGED exit_status
           \/ /\ ~heap_header
              /\ m_pc' = "exited"
              /\ exit_status' = EXIT_ABORT
              /\ UNCHANGED <<device_column, pc, file_mapped>>
    /\ UNCHANGED <<num_chunks, m_total_lines, w_pc, w_slice, w_total_lines,
                   line_counts, sock_file, socket_fd, pending, stream,
                   peer_closed, p_state, p_behaviour, p_input, send_rc, p_output,
                   behaviours, faults, device_column_name, queue_created>>
    /\ UNCHANGED <<mapped_data, pad, num_threads, curr, device_table,
                   data_count, devices, dev_i, thread_allocations, thr_t,
                   queue, queue_count, queue_ops, chunks_created, header,
                   run, first_run, scanVars>>
    /\ UNCHANGED <<tailVars, mutex>>

\* The allocations main makes for its workers.
ThreadArrays == {"threads", "args", "line_counts", "results", "result_sizes"}

\* What main owns once map_device_csv has succeeded.
DeviceCsv == {"mapped_data", "header", "device_table"}

\* malloc, calloc, mmap, thread_safe_queue_create: the resources are live.
Acquire(heap, rs) == [r \in DOMAIN heap |-> IF r \in rs THEN "live" ELSE heap[r]]

\* free, munmap, thread_safe_queue_destroy on what of rs is not NULL.
Release(heap, rs) ==
    [r \in DOMAIN heap |-> IF r \in rs /\ heap[r] # "none" THEN "freed" ELSE heap[r]]

\* The resources of rs that a read or a free finds freed already.
Stale(heap, rs) == {r \in rs : heap[r] = "freed"}

\* unmap_device_csv: the header copy is freed, the table destroyed and the
\* file unmapped, each when its pointer is not NULL.
unmap_device_csv(heap) == Release(heap, DeviceCsv)

\* thread_safe_queue_destroy: the nodes and the queue are freed.
thread_safe_queue_destroy(heap) == Release(heap, {"queue"})

\* main after map_device_csv: it gives up when the index could not be
\* built, else it creates the chunk queue and calls the partitioner; when
\* the queue cannot be created it unmaps and gives up.
MainCreateQueue ==
    /\ m_pc = "index"
    /\ pc \in {"map_failed", "mapped"}
    /\ IF pc = "map_failed"
       THEN /\ m_pc' = "exited"
            /\ exit_status' = EXIT_FAILURE
            /\ UNCHANGED <<queue_created, m_heap, faults>>
       ELSE \/ /\ m_pc' = "partition"
               /\ queue_created' = TRUE
               /\ m_heap' = Acquire(m_heap, DeviceCsv \cup {"queue"})
               /\ UNCHANGED <<exit_status, faults>>
            \/ /\ m_pc' = "exited"
               /\ exit_status' = EXIT_FAILURE
               /\ m_heap' = unmap_device_csv(Acquire(m_heap, DeviceCsv))
               /\ faults' = faults \cup {"queue"}
               /\ UNCHANGED queue_created
    /\ UNCHANGED <<num_chunks, m_total_lines, w_pc, w_slice, w_total_lines,
                   line_counts, sock_file, socket_fd, pending, stream,
                   peer_closed, p_state, p_behaviour, p_input, send_rc, p_output,
                   behaviours, device_column_name, file_mapped>>
    /\ UNCHANGED <<partVars, scanVars>>
    /\ UNCHANGED <<total_memory_freed, chunks_processed, chunks_dropped,
                   final_result_size, stale_reads, mutex>>

\* main after the partitioner: it gives up when no chunk was made or when
\* an array for the workers cannot be allocated, else it starts one worker
\* per chunk.
MainStart ==
    /\ m_pc = "partition"
    /\ pc = "returned"
    /\ \/ /\ chunks_created = 0
          /\ m_pc' = "exited"
          /\ exit_status' = EXIT_FAILURE
          /\ m_heap' = unmap_device_csv(thread_safe_queue_destroy(m_heap))
          /\ UNCHANGED <<num_chunks, w_pc, w_slice, w_total_lines,
                         line_counts, sock_file, socket_fd, pending, stream,
                         peer_closed, p_state, p_behaviour, p_input, send_rc,
                         p_output, faults, total_memory_freed,
                         chunks_processed, chunks_dropped, final_result_size>>
       \/ /\ chunks_created # 0
          /\ \E failed \in (SUBSET ThreadArrays) \ {{}} :
               m_heap' = unmap_device_csv(thread_safe_queue_destroy(
                            Release(Acquire(m_heap, ThreadArrays \ failed),
                                    ThreadArrays)))
          /\ m_pc' = "exited"
          /\ exit_status' = EXIT_FAILURE
          /\ faults' = faults \cup {"alloc"}
          /\ UNCHANGED <<num_chunks, w_pc, w_slice, w_total_lines,
                         line_counts, sock_file, socket_fd, pending, stream,
                         peer_closed, p_state, p_behaviour, p_input, send_rc,
                         p_output, total_memory_freed,
                         chunks_processed, chunks_dropped, final_result_size>>
       \/ /\ chunks_created # 0
          /\ m_pc' = "join"
          /\ num_chunks' = chunks_created
          /\ m_heap' = Acquire(m_heap, ThreadArrays)
          /\ w_pc' = [k \in 1..chunks_created |-> "loop"]
          /\ w_slice' = [k \in 1..chunks_created |-> FreedSlice]
          /\ w_total_lines' = [k \in 1..chunks_created |-> 0]
          /\ line_counts' = [k \in 1..chunks_created |-> 0]
          /\ sock_file' = [p \in {uds_path(k) : k \in 1..chunks_created} |-> FALSE]
          /\ socket_fd' = [k \in 1..chunks_created |-> FALSE]
          /\ pending' = [k \in 1..chunks_created |-> FALSE]
          /\ stream' = [k \in 1..chunks_created |-> <<>>]
          /\ peer_closed' = [k \in 1..chunks_created |-> FALSE]
          /\ p_state' = [k \in 1..chunks_created |-> "none"]
          /\ p_behaviour' = [k \in 1..chunks_created |-> "none"]
          /\ p_input' = [k \in 1..chunks_created |-> <<>>]
          /\ send_rc' = [k \in 1..chunks_created |-> 0]
          /\ p_output' = [k \in 1..chunks_created |-> <<>>]
          /\ total_memory_freed' = [k \in 1..chunks_created |-> 0]
          /\ chunks_processed' = [k \in 1..chunks_created |-> 0]
          /\ chunks_dropped' = [k \in 1..chunks_created |-> 0]
          /\ final_result_size' = [k \in 1..chunks_created |-> 0]
          /\ UNCHANGED <<exit_status, faults>>
    /\ UNCHANGED <<m_total_lines, behaviours, queue, queue_count, queue_ops>>
    /\ UNCHANGED notWork
    /\ UNCHANGED <<stale_reads, mutex>>

\* The head of the loop when the queue hands its head node out without
\* unlinking it.
WorkerDequeueShared(k) ==
    /\ w_pc[k] = "loop"
    /\ queue # <<>>
    /\ w_slice' = [w_slice EXCEPT ![k] = thread_safe_queue_dequeue(queue).chunk]
    /\ queue_count' = CountAfterDequeue(queue_count, 0)
    /\ queue_ops' = [queue_ops EXCEPT !.dequeued = @ + 1]
    /\ w_pc' = [w_pc EXCEPT ![k] = "establish"]
    /\ UNCHANGED <<queue, line_counts>>
    /\ UNCHANGED <<m_pc, exit_status, num_chunks, m_total_lines, w_total_lines,
                   sock_file, socket_fd, pending, stream, peer_closed, p_state,
                   p_behaviour, p_input, send_rc, p_output, behaviours, faults>>
    /\ UNCHANGED notWork
    /\ UNCHANGED <<tailVars, mutex>>

\* The head of the loop with a dequeue that waits for a chunk on an empty
\* queue.
WorkerDequeueBlocking(k) ==
    /\ w_pc[k] = "loop"
    /\ queue # <<>>
    /\ w_slice' = [w_slice EXCEPT ![k] = thread_safe_queue_dequeue(queue).chunk]
    /\ queue' = thread_safe_queue_dequeue(queue).rest
    /\ queue_count' = CountAfterDequeue(queue_count, 0)
    /\ queue_ops' = [queue_ops EXCEPT !.dequeued = @ + 1]
    /\ w_pc' = [w_pc EXCEPT ![k] = "establish"]
    /\ UNCHANGED <<m_pc, exit_status, num_chunks, m_total_lines, w_total_lines,
                   sock_file, socket_fd, pending, stream, peer_closed, p_state,
                   p_behaviour, p_input, send_rc, p_output, behaviours, faults,
                   line_counts>>
    /\ UNCHANGED notWork
    /\ UNCHANGED <<tailVars, mutex>>

\* The head of the loop with a dequeue that unlinks the node behind the
\* head along with the head.
WorkerDequeueLossy(k) ==
    /\ w_pc[k] = "loop"
    /\ mutex.queue = NULL
    /\ LET r == thread_safe_queue_dequeue(queue)
       IN  IF r.dq # 0
           THEN /\ line_counts' = [line_counts EXCEPT ![k] = w_total_lines[k]]
                /\ w_pc' = [w_pc EXCEPT ![k] = "exited"]
                /\ UNCHANGED <<queue, queue_count, queue_ops, w_slice>>
           ELSE /\ queue' = IF r.rest = <<>> THEN r.rest ELSE Tail(r.rest)
                /\ queue_count' = CountAfterDequeue(queue_count, r.dq)
                /\ queue_ops' = [queue_ops EXCEPT !.dequeued = @ + 1]
                /\ w_slice' = [w_slice EXCEPT ![k] = r.chunk]
                /\ w_pc' = [w_pc EXCEPT ![k] = "establish"]
                /\ UNCHANGED line_counts
    /\ UNCHANGED <<m_pc, exit_status, num_chunks, m_total_lines, w_total_lines,
                   sock_file, socket_fd, pending, stream, peer_closed, p_state,
                   p_behaviour, p_input, send_rc, p_output, behaviours, faults>>
    /\ UNCHANGED notWork
    /\ mutex' = [mutex EXCEPT !.queue = QueueMutexAfter(@)]
    /\ UNCHANGED tailVars

\* The head of the loop with a dequeue that returns with the queue's mutex
\* still held by the caller.
WorkerDequeueLocked(k) ==
    /\ w_pc[k] = "loop"
    /\ mutex.queue = NULL
    /\ LET r == thread_safe_queue_dequeue(queue)
       IN  IF r.dq # 0
           THEN /\ line_counts' = [line_counts EXCEPT ![k] = w_total_lines[k]]
                /\ w_pc' = [w_pc EXCEPT ![k] = "exited"]
                /\ UNCHANGED <<queue, queue_count, queue_ops, w_slice>>
           ELSE /\ queue' = r.rest
                /\ queue_count' = CountAfterDequeue(queue_count, r.dq)
                /\ queue_ops' = [queue_ops EXCEPT !.dequeued = @ + 1]
                /\ w_slice' = [w_slice EXCEPT ![k] = r.chunk]
                /\ w_pc' = [w_pc EXCEPT ![k] = "establish"]
                /\ UNCHANGED line_counts
    /\ UNCHANGED <<m_pc, exit_status, num_chunks, m_total_lines, w_total_lines,
                   sock_file, socket_fd, pending, stream, peer_closed, p_state,
                   p_behaviour, p_input, send_rc, p_output, behaviours, faults>>
    /\ UNCHANGED notWork
    /\ mutex' = [mutex EXCEPT !.queue = k]
    /\ UNCHANGED tailVars

\* worker_func, the head of its loop: the next chunk is taken, or the local
\* tally is stored and the worker exits when the queue is empty.
WorkerDequeue(k) ==
    /\ w_pc[k] = "loop"
    /\ mutex.queue = NULL
    /\ LET r == thread_safe_queue_dequeue(queue)
       IN  IF r.dq # 0
           THEN /\ line_counts' = [line_counts EXCEPT ![k] = w_total_lines[k]]
                /\ w_pc' = [w_pc EXCEPT ![k] = "exited"]
                /\ UNCHANGED <<queue, queue_count, queue_ops, w_slice>>
           ELSE /\ queue' = r.rest
                /\ queue_count' = CountAfterDequeue(queue_count, r.dq)
                /\ queue_ops' = [queue_ops EXCEPT !.dequeued = @ + 1]
                /\ w_slice' = [w_slice EXCEPT ![k] = r.chunk]
                /\ w_pc' = [w_pc EXCEPT ![k] = "establish"]
                /\ UNCHANGED line_counts
    /\ UNCHANGED <<m_pc, exit_status, num_chunks, m_total_lines, w_total_lines,
                   sock_file, socket_fd, pending, stream, peer_closed, p_state,
                   p_behaviour, p_input, send_rc, p_output, behaviours, faults>>
    /\ UNCHANGED notWork
    /\ mutex' = [mutex EXCEPT !.queue = QueueMutexAfter(@)]
    /\ UNCHANGED tailVars

\* The same step without the check of server_fd: the worker goes on to
\* launch the subprocess whatever establish_uds_server returned.
WorkerEstablishUnchecked(k) ==
    /\ w_pc[k] = "establish"
    /\ \E outcome \in {"ok", "socket", "bind", "listen"} :
         LET r == establish_uds_server(sock_file[uds_path(k)], outcome)
         IN  /\ sock_file' = [sock_file EXCEPT ![uds_path(k)] = r.file]
             /\ socket_fd' = [socket_fd EXCEPT ![k] = r.fd]
             /\ faults' = IF outcome = "ok" THEN faults ELSE faults \cup {outcome}
    /\ w_pc' = [w_pc EXCEPT ![k] = "launch"]
    /\ UNCHANGED <<m_pc, exit_status, num_chunks, m_total_lines, w_slice,
                   w_total_lines, line_counts, pending, stream, peer_closed,
                   p_state, p_behaviour, p_input, send_rc, p_output,
                   behaviours, queue, queue_count, queue_ops>>
    /\ UNCHANGED notWork
    /\ UNCHANGED <<tailVars, mutex>>

\* worker_func, generate_uds_path and establish_uds_server: on failure the
\* slice is freed and the loop continues.
WorkerEstablish(k) ==
    /\ w_pc[k] = "establish"
    /\ \E outcome \in {"ok", "socket", "bind", "listen"} :
         LET r == establish_uds_server(sock_file[uds_path(k)], outcome)
         IN  /\ sock_file' = [sock_file EXCEPT ![uds_path(k)] = r.file]
             /\ socket_fd' = [socket_fd EXCEPT ![k] = r.fd]
             /\ faults' = IF outcome = "ok" THEN faults ELSE faults \cup {outcome}
             /\ w_pc' = [w_pc EXCEPT ![k] = IF r.fd THEN "launch" ELSE "loop"]
             /\ w_slice' = [w_slice EXCEPT ![k] = IF r.fd THEN @ ELSE FreedSlice]
             /\ total_memory_freed' =
                  [total_memory_freed EXCEPT ![k] =
                      IF r.fd THEN @ ELSE @ + Len(w_slice[k].slice)]
             /\ chunks_dropped' =
                  [chunks_dropped EXCEPT ![k] = IF r.fd THEN @ ELSE @ + 1]
    /\ UNCHANGED <<m_pc, exit_status, num_chunks, m_total_lines,
                   w_total_lines, line_counts, pending, stream, peer_closed,
                   p_state, p_behaviour, p_input, send_rc, p_output, behaviours, queue, queue_count, queue_ops>>
    /\ UNCHANGED notWork
    /\ UNCHANGED <<chunks_processed, final_result_size, m_heap, stale_reads,
                   mutex>>

\* The same step with a failed spawn that cleans the socket up and
\* continues the loop without freeing the slice.
WorkerLaunchLeaky(k) ==
    /\ w_pc[k] = "launch"
    /\ \/ /\ sock_file' = [sock_file EXCEPT ![uds_path(k)] = cleanup_uds.file]
          /\ socket_fd' = [socket_fd EXCEPT ![k] = cleanup_uds.fd]
          /\ faults' = faults \cup {"spawn"}
          /\ w_pc' = [w_pc EXCEPT ![k] = "loop"]
          /\ chunks_dropped' = [chunks_dropped EXCEPT ![k] = @ + 1]
          /\ UNCHANGED <<w_slice, total_memory_freed>>
          /\ UNCHANGED <<p_state, p_behaviour, behaviours>>
       \/ \E b \in Behaviours :
          /\ p_state' = [p_state EXCEPT ![k] = "spawned"]
          /\ p_behaviour' = [p_behaviour EXCEPT ![k] = b]
          /\ behaviours' = behaviours \cup {b}
          /\ w_pc' = [w_pc EXCEPT ![k] = "send"]
          /\ UNCHANGED <<sock_file, socket_fd, faults, w_slice,
                         total_memory_freed, chunks_dropped>>
    /\ pending' = [pending EXCEPT ![k] = FALSE]
    /\ stream' = [stream EXCEPT ![k] = <<>>]
    /\ peer_closed' = [peer_closed EXCEPT ![k] = FALSE]
    /\ p_input' = [p_input EXCEPT ![k] = <<>>]
    /\ p_output' = [p_output EXCEPT ![k] = <<>>]
    /\ UNCHANGED <<m_pc, exit_status, num_chunks, m_total_lines,
                   w_total_lines, line_counts, queue, queue_count, queue_ops, send_rc>>
    /\ UNCHANGED notWork
    /\ UNCHANGED <<chunks_processed, final_result_size, m_heap, stale_reads,
                   mutex>>

\* worker_func, launch_python_process: a failed spawn frees the slice,
\* cleans the socket up and continues the loop.
WorkerLaunch(k) ==
    /\ w_pc[k] = "launch"
    /\ \/ /\ sock_file' = [sock_file EXCEPT ![uds_path(k)] = cleanup_uds.file]
          /\ socket_fd' = [socket_fd EXCEPT ![k] = cleanup_uds.fd]
          /\ faults' = faults \cup {"spawn"}
          /\ w_pc' = [w_pc EXCEPT ![k] = "loop"]
          /\ w_slice' = [w_slice EXCEPT ![k] = FreedSlice]
          /\ total_memory_freed' =
               [total_memory_freed EXCEPT ![k] = @ + Len(w_slice[k].slice)]
          /\ chunks_dropped' = [chunks_dropped EXCEPT ![k] = @ + 1]
          /\ UNCHANGED <<p_state, p_behaviour, behaviours>>
       \/ \E b \in Behaviours :
          /\ p_state' = [p_state EXCEPT ![k] = "spawned"]
          /\ p_behaviour' = [p_behaviour EXCEPT ![k] = b]
          /\ behaviours' = behaviours \cup {b}
          /\ w_pc' = [w_pc EXCEPT ![k] = "send"]
          /\ UNCHANGED <<sock_file, socket_fd, faults, w_slice,
                         total_memory_freed, chunks_dropped>>
    /\ pending' = [pending EXCEPT ![k] = FALSE]
    /\ stream' = [stream EXCEPT ![k] = <<>>]
    /\ peer_closed' = [peer_closed EXCEPT ![k] = FALSE]
    /\ p_input' = [p_input EXCEPT ![k] = <<>>]
    /\ p_output' = [p_output EXCEPT ![k] = <<>>]
    /\ UNCHANGED <<m_pc, exit_status, num_chunks, m_total_lines,
                   w_total_lines, line_counts, queue, queue_count, queue_ops, send_rc>>
    /\ UNCHANGED notWork
    /\ UNCHANGED <<chunks_processed, final_result_size, m_heap, stale_reads,
                   mutex>>

\* worker_func, send_csv_chunk: once the subprocess has connected, the
\* header, an LF and the slice are sent, each by one send, and the
\* connection is closed, at once after a send that failed; the close lets
\* the subprocess read to the end. The result is not looked at.
WorkerSend(k) ==
    /\ w_pc[k] = "send"
    /\ pending[k]
    /\ \E sends \in 0..3 :
         LET r == send_csv_chunk(w_slice[k], sends)
         IN  /\ p_input' = [p_input EXCEPT ![k] = r.written]
             /\ send_rc' = [send_rc EXCEPT ![k] = r.rc]
             /\ faults' = IF r.rc = 0 THEN faults ELSE faults \cup {"send"}
    /\ pending' = [pending EXCEPT ![k] = FALSE]
    /\ p_state' = [p_state EXCEPT ![k] = "read"]
    /\ w_pc' = [w_pc EXCEPT ![k] = "receive"]
    /\ UNCHANGED <<m_pc, exit_status, num_chunks, m_total_lines, w_slice,
                   w_total_lines, line_counts, sock_file, socket_fd, stream,
                   peer_closed, p_behaviour, p_output, behaviours, queue, queue_count, queue_ops>>
    /\ UNCHANGED notWork
    /\ UNCHANGED <<tailVars, mutex>>

\* worker_func, receive_processed_csv and the tally: the second connection
\* is accepted, one recv takes what has arrived on it (it returns once
\* there are bytes or the peer has closed), the LFs received are added to
\* the local total, and to the result when realloc can grow it, and the
\* connection is closed.
WorkerReceive(k) ==
    /\ w_pc[k] = "receive"
    /\ pending[k]
    /\ stream[k] # <<>> \/ peer_closed[k]
    /\ \E ok \in BOOLEAN :
         LET received == receive_processed_csv(stream[k], ok)
         IN  /\ w_total_lines' =
                  [w_total_lines EXCEPT ![k] =
                      IF received > 0 THEN @ + CountLF(stream[k], received) ELSE @]
             /\ faults' = IF ok THEN faults ELSE faults \cup {"recv"}
             /\ \E new_result \in IF received > 0 THEN BOOLEAN ELSE {FALSE} :
                  final_result_size' =
                      [final_result_size EXCEPT ![k] =
                          IF new_result THEN @ + received ELSE @]
    /\ pending' = [pending EXCEPT ![k] = FALSE]
    /\ stream' = [stream EXCEPT ![k] = <<>>]
    /\ w_pc' = [w_pc EXCEPT ![k] = "wait"]
    /\ UNCHANGED <<m_pc, exit_status, num_chunks, m_total_lines, w_slice,
                   line_counts, sock_file, socket_fd, peer_closed, p_state,
                   p_behaviour, p_input, send_rc, p_output, behaviours, queue, queue_count, queue_ops>>
    /\ UNCHANGED notWork
    /\ UNCHANGED <<total_memory_freed, chunks_processed, chunks_dropped,
                   m_heap, stale_reads, mutex>>

\* The end of an iteration without its waitpid: the slice is freed and the
\* socket cleaned up while the subprocess is left as it is.
WorkerWaitNoReap(k) ==
    /\ w_pc[k] = "wait"
    /\ sock_file' = [sock_file EXCEPT ![uds_path(k)] = cleanup_uds.file]
    /\ socket_fd' = [socket_fd EXCEPT ![k] = cleanup_uds.fd]
    /\ w_slice' = [w_slice EXCEPT ![k] = FreedSlice]
    /\ total_memory_freed' =
         [total_memory_freed EXCEPT ![k] = @ + Len(w_slice[k].slice)]
    /\ chunks_processed' = [chunks_processed EXCEPT ![k] = @ + 1]
    /\ send_rc' = [send_rc EXCEPT ![k] = 0]
    /\ w_pc' = [w_pc EXCEPT ![k] = "loop"]
    /\ UNCHANGED <<m_pc, exit_status, num_chunks, m_total_lines,
                   w_total_lines, line_counts, pending, stream, p_input,
                   p_output, behaviours, faults, queue, queue_count, queue_ops,
                   p_state, p_behaviour, peer_closed>>
    /\ UNCHANGED notWork
    /\ UNCHANGED <<chunks_dropped, final_result_size, m_heap, stale_reads,
                   mutex>>

\* worker_func, the end of an iteration: the slice is freed, the subprocess
\* waited for and the socket cleaned up.
WorkerWait(k) ==
    /\ w_pc[k] = "wait"
    /\ p_state[k] = "exited"
    /\ sock_file' = [sock_file EXCEPT ![uds_path(k)] = cleanup_uds.file]
    /\ socket_fd' = [socket_fd EXCEPT ![k] = cleanup_uds.fd]
    /\ p_state' = [p_state EXCEPT ![k] = "none"]
    /\ p_behaviour' = [p_behaviour EXCEPT ![k] = "none"]
    /\ peer_closed' = [peer_closed EXCEPT ![k] = FALSE]
    /\ w_slice' = [w_slice EXCEPT ![k] = FreedSlice]
    /\ total_memory_freed' =
         [total_memory_freed EXCEPT ![k] = @ + Len(w_slice[k].slice)]
    /\ chunks_processed' = [chunks_processed EXCEPT ![k] = @ + 1]
    /\ send_rc' = [send_rc EXCEPT ![k] = 0]
    /\ w_pc' = [w_pc EXCEPT ![k] = "loop"]
    /\ UNCHANGED <<m_pc, exit_status, num_chunks, m_total_lines,
                   w_total_lines, line_counts, pending, stream, p_input,
                   p_output, behaviours, faults, queue, queue_count, queue_ops>>
    /\ UNCHANGED notWork
    /\ UNCHANGED <<chunks_dropped, final_result_size, m_heap, stale_reads,
                   mutex>>

\* The subprocess connects to the worker's socket to read its input.
SubprocessConnect(k) ==
    /\ p_state[k] = "spawned"
    /\ p_behaviour[k] # "never"
    /\ socket_fd[k]
    /\ pending' = [pending EXCEPT ![k] = TRUE]
    /\ p_state' = [p_state EXCEPT ![k] = "connected"]
    /\ UNCHANGED <<m_pc, exit_status, num_chunks, m_total_lines, w_pc, w_slice,
                   w_total_lines, line_counts, sock_file, socket_fd, stream,
                   peer_closed, p_behaviour, p_input, send_rc, p_output, behaviours,
                   faults, queue, queue_count, queue_ops>>
    /\ UNCHANGED notWork
    /\ UNCHANGED <<tailVars, mutex>>

\* Having read its input to the end, the subprocess connects a second time
\* to write its response.
SubprocessRespond(k) ==
    /\ p_state[k] = "read"
    /\ p_behaviour[k] \in {"echo", "silent"}
    /\ socket_fd[k]
    /\ pending' = [pending EXCEPT ![k] = TRUE]
    /\ p_output' = [p_output EXCEPT ![k] =
                       IF p_behaviour[k] = "echo" THEN p_input[k] ELSE <<>>]
    /\ p_state' = [p_state EXCEPT ![k] = "responding"]
    /\ UNCHANGED <<m_pc, exit_status, num_chunks, m_total_lines, w_pc, w_slice,
                   w_total_lines, line_counts, sock_file, socket_fd, stream,
                   peer_closed, p_behaviour, p_input, send_rc, behaviours, faults, queue, queue_count, queue_ops>>
    /\ UNCHANGED notWork
    /\ UNCHANGED <<tailVars, mutex>>

\* The subprocess writes the next segment of its response while the worker
\* has not closed the connection.
SubprocessWrite(k) ==
    /\ p_state[k] = "responding"
    /\ w_pc[k] = "receive"
    /\ p_output[k] # <<>>
    /\ \E n \in {Min({SegmentLen, Len(p_output[k])}), Len(p_output[k])} :
         /\ stream' = [stream EXCEPT ![k] = @ \o SubSeq(p_output[k], 1, n)]
         /\ p_output' = [p_output EXCEPT ![k] = SubSeq(@, n + 1, Len(@))]
    /\ UNCHANGED <<m_pc, exit_status, num_chunks, m_total_lines, w_pc, w_slice,
                   w_total_lines, line_counts, sock_file, socket_fd, pending,
                   peer_closed, p_state, p_behaviour, p_input, send_rc, behaviours,
                   faults, queue, queue_count, queue_ops>>
    /\ UNCHANGED notWork
    /\ UNCHANGED <<tailVars, mutex>>

\* The subprocess exits: without connecting, after reading, or after its
\* response (all written, or cut short because the worker closed).
SubprocessExit(k) ==
    /\ \/ p_state[k] = "spawned" /\ p_behaviour[k] = "never"
       \/ p_state[k] = "read" /\ p_behaviour[k] = "abort"
       \/ p_state[k] = "responding" /\ (p_output[k] = <<>> \/ w_pc[k] # "receive")
    /\ peer_closed' = [peer_closed EXCEPT ![k] = (p_state[k] = "responding")]
    /\ p_state' = [p_state EXCEPT ![k] = "exited"]
    /\ p_input' = [p_input EXCEPT ![k] = <<>>]
    /\ p_output' = [p_output EXCEPT ![k] = <<>>]
    /\ UNCHANGED <<m_pc, exit_status, num_chunks, m_total_lines, w_pc, w_slice,
                   w_total_lines, line_counts, sock_file, socket_fd, pending,
                   stream, p_behaviour, behaviours, faults, queue, queue_count, queue_ops, send_rc>>
    /\ UNCHANGED notWork
    /\ UNCHANGED <<tailVars, mutex>>

\* main with its loop of pthread_join left out: it goes on while workers
\* still run.
MainJoinEarly ==
    /\ m_pc = "join"
    /\ m_total_lines' = SumSeq(line_counts)
    /\ stale_reads' = stale_reads \cup Stale(m_heap, {"line_counts"})
    /\ m_heap' = Release(m_heap, {"threads", "args", "line_counts"})
    /\ m_pc' = "release"
    /\ UNCHANGED <<exit_status, num_chunks, w_pc, w_slice, w_total_lines,
                   line_counts, sock_file, socket_fd, pending, stream,
                   peer_closed, p_state, p_behaviour, p_input, send_rc,
                   p_output, behaviours, faults, queue, queue_count, queue_ops>>
    /\ UNCHANGED notWork
    /\ UNCHANGED <<total_memory_freed, chunks_processed, chunks_dropped,
                   final_result_size, mutex>>

\* main, the joins and what follows them: once every worker has
\* terminated the tallies are summed and threads, args and line_counts are
\* freed.
MainJoin ==
    /\ m_pc = "join"
    /\ \A k \in 1..num_chunks : w_pc[k] = "exited"
    /\ m_total_lines' = SumSeq(line_counts)
    /\ stale_reads' = stale_reads \cup Stale(m_heap, {"line_counts"})
    /\ m_heap' = Release(m_heap, {"threads", "args", "line_counts"})
    /\ m_pc' = "release"
    /\ UNCHANGED <<exit_status, num_chunks, w_pc, w_slice, w_total_lines,
                   line_counts, sock_file, socket_fd, pending, stream,
                   peer_closed, p_state, p_behaviour, p_input, send_rc,
                   p_output, behaviours, faults, queue, queue_count, queue_ops>>
    /\ UNCHANGED notWork
    /\ UNCHANGED <<total_memory_freed, chunks_processed, chunks_dropped,
                   final_result_size, mutex>>

\* main: the chunk queue is destroyed and the device CSV unmapped.
MainRelease ==
    /\ m_pc = "release"
    /\ stale_reads' = stale_reads \cup Stale(m_heap, DeviceCsv \cup {"queue"})
    /\ m_heap' = unmap_device_csv(thread_safe_queue_destroy(m_heap))
    /\ m_pc' = "report"
    /\ UNCHANGED <<exit_status, num_chunks, m_total_lines, w_pc, w_slice,
                   w_total_lines, line_counts, sock_file, socket_fd, pending,
                   stream, peer_closed, p_state, p_behaviour, p_input, send_rc,
                   p_output, behaviours, faults, queue, queue_count, queue_ops>>
    /\ UNCHANGED notWork
    /\ UNCHANGED <<total_memory_freed, chunks_processed, chunks_dropped,
                   final_result_size, mutex>>

\* main, the report and the final cleanup: for each thread line_counts[i],
\* results[i] and result_sizes[i] are read, the total is printed, then the
\* results and the two arrays are freed and main returns.
MainReport ==
    /\ m_pc = "report"
    /\ stale_reads' = stale_reads \cup
                      Stale(m_heap, {"line_counts", "results", "result_sizes"})
    /\ m_heap' = Release(m_heap, {"results", "result_sizes"})
    /\ exit_status' = EXIT_SUCCESS
    /\ m_pc' = "exited"
    /\ UNCHANGED <<num_chunks, m_total_lines, w_pc, w_slice,
                   w_total_lines, line_counts, sock_file, socket_fd, pending,
                   stream, peer_closed, p_state, p_behaviour, p_input, send_rc,
                   p_output, behaviours, faults, queue, queue_count, queue_ops>>
    /\ UNCHANGED notWork
    /\ UNCHANGED <<total_memory_freed, chunks_processed, chunks_dropped,
                   final_result_size, mutex>>

WorkerStep(k) ==
    \/ WorkerDequeue(k)
    \/ WorkerEstablish(k)
    \/ WorkerLaunch(k)
    \/ WorkerSend(k)
    \/ WorkerReceive(k)
    \/ WorkerWait(k)

NextWork ==
    \/ MainMapCsv
    \/ MainFindColumn
    \/ MapDeviceCsvOpen
    \/ MapDeviceCsvLine
    \/ MainCreateQueue
    \/ m_pc = "partition" /\ PartitionBegin
    \/ AssignDevice
    \/ EmitChunk
    \/ MainStart
    \/ \E k \in 1..Len(w_pc) : WorkerDequeue(k)
    \/ \E k \in 1..Len(w_pc) : WorkerEstablish(k)
    \/ \E k \in 1..Len(w_pc) : WorkerLaunch(k)
    \/ \E k \in 1..Len(w_pc) : WorkerSend(k)
    \/ \E k \in 1..Len(w_pc) : WorkerReceive(k)
    \/ \E k \in 1..Len(w_pc) : WorkerWait(k)
    \/ \E k \in 1..Len(w_pc) : SubprocessConnect(k)
    \/ \E k \in 1..Len(w_pc) : SubprocessRespond(k)
    \/ \E k \in 1..Len(w_pc) : SubprocessWrite(k)
    \/ \E k \in 1..Len(w_pc) : SubprocessExit(k)
    \/ MainJoin
    \/ MainRelease
    \/ MainReport

SpecWork == InitWork /\ [][NextWork]_vars

\* A step of one of the subprocesses.
SubprocessStep(k) ==
    \/ SubprocessConnect(k)
    \/ SubprocessRespond(k)
    \/ SubprocessWrite(k)
    \/ SubprocessExit(k)

\* Once the workers exist, main in its joins, the workers and the
\* subprocesses are threads and processes the operating system keeps
\* scheduling: a step of theirs that stays possible is taken.
FairSpecWork ==
    /\ SpecWork
    /\ WF_vars(MainJoin \/ MainRelease \/ MainReport)
    /\ WF_vars(\E k \in 1..Len(w_pc) : WorkerStep(k))
    /\ WF_vars(\E k \in 1..Len(w_pc) : SubprocessStep(k))

\* ----------------------------------------------------- properties: workers
\* C8 -- Socket cleanup: whatever happened in its loop, a worker that has
\* exited has left no socket file at its path.
SocketCleanup ==
    \A k \in 1..Len(w_pc) : w_pc[k] = "exited" => ~sock_file[uds_path(k)]

\* C9 -- A failed chunk never blocks the worker: when the subprocess has
\* exited while the worker waits for it in send_csv_chunk or in
\* receive_processed_csv, the worker can go on (to record nothing for the
\* chunk and return to the queue).
FailedChunkNeverBlocks ==
    \A k \in 1..Len(w_pc) :
        (w_pc[k] \in {"send", "receive"} /\ p_state[k] = "exited")
            => ENABLED WorkerStep(k)

\* C10 -- Round trip with an identity subprocess: when every subprocess
\* echoed its input and no call failed, then after the joins the sum of the
\* workers' tallies is the number of data lines plus one header line per
\* chunk, however the responses were segmented.
RoundTripIdentity ==
    (m_pc = "exited" /\ exit_status = EXIT_SUCCESS
        /\ behaviours \subseteq {"echo"} /\ faults = {})
      => m_total_lines = Cardinality(DataLineStarts) + num_chunks

\* ------------------------------------------------------- properties: main
\* C11 -- Empty file: with an input of size 0 mmap is never called, neither
\* the index build nor the queue, a worker, a subprocess or a socket ever
\* exists, and main returns a non-zero status.
EmptyFileRejected ==
    mapped_data = <<>> =>
        /\ ~file_mapped
        /\ pc = "idle"
        /\ ~queue_created
        /\ queue = <<>>
        /\ w_pc = <<>>
        /\ p_state = <<>>
        /\ sock_file = <<>>
        /\ behaviours = {}
        /\ m_pc \in {"start", "exited"}
        /\ m_pc = "exited" => exit_status # EXIT_SUCCESS

EmptyFileWitness ==
    mapped_data = <<>> /\ m_pc = "exited" /\ exit_status = EXIT_FAILURE

\* C12 -- Header-only file: for a file that is the header line and its LF
\* the index holds no data line, the partitioner makes N empty chunks, the
\* workers run and main finishes successfully with total tally 0.
HeaderOnlyFile ==
    (mapped_data = HeaderLine \o <<LF>> /\ m_pc = "exited"
        /\ device_column_name = <<"i">>) =>
        /\ data_count = 0
        /\ chunks_created = num_threads
        /\ num_chunks = num_threads
        /\ exit_status = EXIT_SUCCESS
        /\ m_total_lines = 0

RECURSIVE SplitOn(_, _)
\* The fields of a byte sequence, separated by sep.
SplitOn(bytes, sep) ==
    LET cut == memchr(bytes, 1, sep, Len(bytes))
    IN  IF cut = NULL THEN <<bytes>>
        ELSE <<SubSeq(bytes, 1, cut - 1)>>
             \o SplitOn(SubSeq(bytes, cut + 1, Len(bytes)), sep)

\* A field without its leading and trailing spaces.
Trimmed(field) ==
    LET solid == {k \in 1..Len(field) : field[k] # " "}
    IN  IF solid = {} THEN <<>> ELSE SubSeq(field, Min(solid), Max(solid))

\* The header line of the file: its bytes up to the first LF.
FirstLine == Head(SplitOn(mapped_data, LF))

\* No field of the header line is the column name asked for.
ColumnAbsent ==
    \A k \in 1..Len(SplitOn(FirstLine, PIPE)) :
        Trimmed(SplitOn(FirstLine, PIPE)[k]) # device_column_name

\* C13 -- Missing column: when no header field equals the requested name,
\* the device index is never built, the queue never created, no worker is
\* started and main returns a non-zero status.
MissingColumn ==
    (mapped_data # <<>> /\ ColumnAbsent) =>
        /\ pc = "idle"
        /\ ~queue_created
        /\ w_pc = <<>>
        /\ m_pc \in {"start", "find_column", "exited"}
        /\ m_pc = "exited" => exit_status # EXIT_SUCCESS

MissingColumnWitness ==
    /\ mapped_data = ScenarioFile
    /\ device_column_name = <<"x">>
    /\ ColumnAbsent
    /\ file_mapped
    /\ m_pc = "exited"
    /\ exit_status = EXIT_FAILURE

\* ------------------------------------------- properties: partitioner (2)
\* C14 -- LF termination: every chunk in the queue is, row by row, the bytes
\* of the data line (without its LF) followed by exactly one LF, also for a
\* final line that has no LF in the file.
LFTermination ==
    \A k \in 1..Len(queue) :
        queue[k].slice
          = Flatten([j \in 1..Len(queue[k].rows) |->
                        LineBytes(mapped_data, queue[k].rows[j]) \o <<LF>>])

\* A chunk holds the final line of a file that does not end with an LF.
LFTerminationWitness ==
    /\ pc = "returned"
    /\ \E k \in 1..Len(queue) : \E j \in 1..Len(queue[k].rows) :
         /\ memchr(mapped_data, queue[k].rows[j], LF,
                   Len(mapped_data) + 1 - queue[k].rows[j]) = NULL
         /\ queue[k].slice[Len(queue[k].slice)] = LF

\* ------------------------------------------------- properties: workers (2)
\* C15 -- Send order: once send_csv_chunk has returned 0 and closed the
\* connection, what the subprocess has read from it is exactly the chunk's
\* header, one LF and the chunk's bytes, in that order.
SendOrder ==
    \A k \in 1..Len(w_pc) :
        (p_state[k] = "read" /\ send_rc[k] = 0)
            => p_input[k] = w_slice[k].header \o <<LF>> \o w_slice[k].slice

\* A worker has sent a chunk with a header and data and closed.
SendOrderWitness ==
    \E k \in 1..Len(w_pc) :
        /\ p_state[k] = "read"
        /\ send_rc[k] = 0
        /\ w_slice[k].header # <<>>
        /\ w_slice[k].slice # <<>>
        /\ Len(p_input[k]) = Len(w_slice[k].header) + 1 + Len(w_slice[k].slice)

SubprocessesCooperate == behaviours \subseteq {"echo", "silent"}

\* C17 -- Drain-loop termination: while workers exist the partitioner has
\* returned and enqueues nothing more, a worker at the head of its loop can
\* always take its step (on the empty queue too), and once the workers are
\* created, unless a subprocess that does not connect twice and close is
\* launched, main gets past its joins and returns.
DrainLoopTermination ==
    /\ [](w_pc # <<>> => pc = "returned" /\ queue_ops.enqueued = chunks_created)
    /\ [](\A k \in 1..Len(w_pc) : w_pc[k] = "loop" => ENABLED WorkerDequeue(k))
    /\ (w_pc # <<>>) ~> (m_pc = "exited" \/ ~SubprocessesCooperate)

\* main has returned after joining two workers whose subprocesses all
\* connected twice and closed.
DrainLoopTerminationWitness ==
    /\ m_pc = "exited"
    /\ num_chunks >= 2
    /\ \A k \in 1..num_chunks : w_pc[k] = "exited"
    /\ behaviours # {}
    /\ SubprocessesCooperate

\* ----------------------------------------------- properties: scanner (2)
\* C18 -- No shared writable state during the scan: a step of start_threads
\* changes no field of the ThreadData of a thread that is already created.
ScannerStateUnshared ==
    [][StartThread =>
         \A k \in 1..Len(t_pc) :
             t_pc[k] # "none" => thread_data'[k] = thread_data[k]]_vars

\* C19 -- Scan determinism: a second scan of the same bytes with the same
\* number of threads returns the line count and the line starts the first
\* scan returned, whatever the two schedules were.
ScanDeterminism ==
    (s_pc = "done" /\ first_scan.scanned)
        => /\ total_line_count = first_scan.line_count
           /\ global_index = first_scan.line_indices

\* C20 -- Boundary realignment: once start_threads has set the blocks up,
\* every block after the first that is not empty starts right after an LF,
\* and every block ends where the next one starts (the bytes skipped went
\* to the block before).
BoundaryRealignment ==
    (s_pc \in {"join", "done"} /\ thread_data # <<>>)
        => \A k \in 2..Len(thread_data) :
              /\ thread_data[k].size > 0
                   => s_data[thread_data[k].start - 1] = LF
              /\ thread_data[k - 1].start + thread_data[k - 1].size
                   = thread_data[k].start

\* ------------------------------------------------- properties: index (2)
\* C21 -- File order within a device: the line pointers of every device of
\* the index are strictly increasing, the order of the lines in the file.
FileOrderWithinDevice ==
    \A d \in 1..Len(device_table) :
        \A j, k \in 1..Len(device_table[d].lines) :
            j < k => device_table[d].lines[j] < device_table[d].lines[k]

\* The finished index holds a device with three lines, with lines of other
\* devices between them in the file.
FileOrderWitness ==
    /\ pc = "mapped"
    /\ \E d, e \in 1..Len(device_table) :
         /\ Len(device_table[d].lines) >= 3
         /\ Len(device_table[e].lines) >= 1
         /\ device_table[d].lines[1] < device_table[e].lines[1]
         /\ device_table[e].lines[1] < device_table[d].lines[2]

\* C22 -- Malformed lines are skipped: in the finished index a data line
\* with fewer pipes than the device column is in no device's list, whatever
\* the lines after it hold.
MalformedSkipped ==
    pc \in {"mapped", "assign", "emit", "returned"} =>
        \A p \in DataLineStarts : Malformed(p) => ListsHolding(p) = {}

\* The field after the c-th pipe of a line, up to its next pipe or its end.
FieldOf(line, c) == SplitOn(line, PIPE)[c + 1]

\* C23 -- Device-id extent: the id under which a well-formed data line is
\* indexed is the field after the c-th pipe of that line, ending at the
\* next pipe, the line's LF or the end of the mapping; no id holds an LF.
DeviceIdExtent ==
    \A d \in 1..Len(device_table) :
        /\ \A k \in 1..Len(device_table[d].device_id) :
               device_table[d].device_id[k] # LF
        /\ \A j \in 1..Len(device_table[d].lines) :
               ~Malformed(device_table[d].lines[j])
                 => device_table[d].device_id
                      = FieldOf(LineBytes(mapped_data, device_table[d].lines[j]),
                                device_column)

\* ----------------------------------------------------- properties: main (2)
\* The 0-based position, among the fields of the header line split on every
\* pipe, of the first field that is the name once trimmed; -1 without one.
ExpectedColumn ==
    LET fields == SplitOn(FirstLine, PIPE)
        hits == {k \in 1..Len(fields) : Trimmed(fields[k]) = device_column_name}
    IN  IF hits = {} THEN -1 ELSE Min(hits) - 1

\* C24 -- Column location: the index main got from find_device_column and
\* handed to map_device_csv is the position of the first header field,
\* empty fields counted, whose trimmed name is the name asked for.
ColumnLocation ==
    (m_pc \in {"index", "partition", "join"} /\ pc # "idle")
        => device_column = ExpectedColumn

\* ------------------------------------------- properties: partitioner (3)
RECURSIVE LexLess(_, _)
\* a is before b in the lexicographic order of their bytes (strcmp < 0).
LexLess(a, b) ==
    IF b = <<>> THEN FALSE
    ELSE IF a = <<>> THEN TRUE
    ELSE IF Ord(Head(a)) # Ord(Head(b)) THEN Ord(Head(a)) < Ord(Head(b))
    ELSE LexLess(Tail(a), Tail(b))

\* C25 -- LPT sort order: the sorted device array is in descending order of
\* line count, and devices with the same line count are in ascending
\* lexicographic order of their ids.
LPTSortOrder ==
    pc \in {"assign", "emit", "returned"} =>
        \A j, k \in 1..Len(devices) :
            j < k =>
                \/ devices[j].line_count > devices[k].line_count
                \/ /\ devices[j].line_count = devices[k].line_count
                   /\ LexLess(devices[j].device_id, devices[k].device_id)

\* The total_lines of the threads, as a set.
BucketTotals == {thread_allocations[t].total_lines : t \in 1..Len(thread_allocations)}

\* The line count of the largest device.
LargestDevice == Max({devices[k].line_count : k \in 1..Len(devices)})

\* C26 -- Imbalance bound: after every step of the greedy assignment and at
\* its end, the largest and the smallest total_lines of the threads differ
\* by at most the line count of the largest device.
ImbalanceBound ==
    (pc \in {"assign", "emit", "returned"} /\ devices # <<>>)
        => Max(BucketTotals) - Min(BucketTotals) <= LargestDevice

\* Three devices have been assigned to at least two threads and the totals
\* differ.
ImbalanceBoundWitness ==
    /\ pc = "emit"
    /\ Len(devices) >= 3
    /\ Len(thread_allocations) >= 2
    /\ Min(BucketTotals) >= 1
    /\ Max(BucketTotals) - Min(BucketTotals) >= 1

\* ------------------------------------------------- properties: workers (3)
\* C27 -- Socket error handling: a step in which establish_uds_server gives
\* the worker no listening socket releases the chunk, adds nothing to the
\* worker's tally, launches no subprocess and takes the worker back to the
\* head of its loop.
SocketErrorHandling ==
    [][\A k \in 1..Len(w_pc) :
         (w_pc[k] = "establish" /\ w_pc'[k] # "establish" /\ ~socket_fd'[k])
            => /\ w_pc'[k] = "loop"
               /\ w_slice'[k] = FreedSlice
               /\ w_total_lines'[k] = w_total_lines[k]
               /\ p_state'[k] = "none"
               /\ behaviours' = behaviours]_vars

\* After a failed bind for its first chunk, worker 1 has taken the second
\* chunk and has a listening socket for it; no subprocess was launched yet.
SocketErrorWitness ==
    /\ Len(w_pc) = 2
    /\ faults = {"bind"}
    /\ behaviours = {}
    /\ queue = <<>>
    /\ w_pc[2] = "loop"
    /\ w_pc[1] = "launch"
    /\ socket_fd[1]

\* C28 -- Spawn error handling: a step in which launch_python_process gives
\* the worker no subprocess closes the listening socket, unlinks the socket
\* file, releases the chunk, leaves the tally as it is and takes the worker
\* back to the head of its loop.
SpawnErrorHandling ==
    [][\A k \in 1..Len(w_pc) :
         (w_pc[k] = "launch" /\ w_pc'[k] # "launch" /\ p_state'[k] # "spawned")
            => /\ ~socket_fd'[k]
               /\ ~sock_file'[uds_path(k)]
               /\ w_slice'[k] = FreedSlice
               /\ w_total_lines'[k] = w_total_lines[k]
               /\ w_pc'[k] = "loop"]_vars

\* After a failed spawn for its first chunk, worker 1 has taken the second
\* chunk and launched a subprocess for it.
SpawnErrorWitness ==
    /\ Len(w_pc) = 2
    /\ faults = {"spawn"}
    /\ queue = <<>>
    /\ w_pc[2] = "loop"
    /\ w_pc[1] = "send"
    /\ p_state[1] = "spawned"

\* C29 -- Send error handling: a step in which send_csv_chunk fails takes
\* the worker straight to reaping the subprocess, not to waiting for a
\* response, and the worker's tally is never raised for that chunk.
SendErrorHandling ==
    [][\A k \in 1..Len(w_pc) :
         /\ (w_pc[k] = "send" /\ w_pc'[k] # "send" /\ send_rc'[k] # 0)
               => w_pc'[k] = "wait"
         /\ (w_pc[k] = "receive" /\ send_rc[k] # 0)
               => w_total_lines'[k] = w_total_lines[k]]_vars

\* C30 -- Reaping: a worker that is at the head of its loop, on its way to
\* launching a subprocess, or terminated has no subprocess that it launched
\* and did not wait for; so it never has more than one.
Reaping ==
    \A k \in 1..Len(w_pc) :
        w_pc[k] \in {"loop", "establish", "launch", "exited"}
            => p_state[k] = "none"

\* The only worker has terminated after a chunk whose send failed and whose
\* subprocess it had launched.
ReapingWitness ==
    /\ Len(w_pc) = 1
    /\ w_pc[1] = "exited"
    /\ faults = {"send"}
    /\ behaviours # {}
    /\ queue_ops.dequeued = 1


\* C31 -- Socket path uniqueness: two workers never have a listening socket
\* at the same path, a step takes a socket file away only from under the
\* worker whose step it is, never from under another worker that is
\* listening at that path, and a worker changes no path but its own.
SocketPathUniqueness ==
    [][/\ \A j, k \in 1..Len(w_pc') :
             j # k /\ socket_fd'[j] /\ socket_fd'[k] => uds_path(j) # uds_path(k)
       /\ \A k \in 1..Len(w_pc) :
             socket_fd[k] /\ socket_fd'[k] /\ w_pc'[k] = w_pc[k]
                 => sock_file'[uds_path(k)] = sock_file[uds_path(k)]
       /\ \A p \in DOMAIN sock_file :
             sock_file'[p] # sock_file[p]
                 => \E k \in 1..Len(w_pc) : w_pc'[k] # w_pc[k] /\ uds_path(k) = p]_vars

\* Two workers are listening at the same time.
SocketPathWitness ==
    \E j, k \in 1..Len(w_pc) : j # k /\ socket_fd[j] /\ socket_fd[k] /\ sock_file[uds_path(j)]
                                     /\ sock_file[uds_path(k)]


\* Where a worker is about to block or is blocked in a system call: the
\* spawn of the subprocess, the accept and the sends, the accept and the
\* recv, the waitpid.
BlockingPositions == {"launch", "send", "receive", "wait"}

Borrowed == DeviceCsv \cup {"queue"}

\* C33 -- Release ordering: the mapping, the device index, the header copy
\* and the chunk queue are released only in a step taken when every worker
\* has terminated, so that while a worker still runs all of them are live.
ReleaseOrdering ==
    [][/\ \A r \in Borrowed :
             w_pc # <<>> /\ m_heap[r] = "live" /\ m_heap'[r] = "freed"
                 => \A k \in 1..Len(w_pc) : w_pc[k] = "exited"
       /\ \A k \in 1..Len(w_pc') :
             w_pc'[k] # "exited" => \A r \in Borrowed : m_heap'[r] = "live"]_vars

\* Main has destroyed the queue and unmapped the file after workers that
\* took chunks.
ReleaseOrderingWitness ==
    /\ w_pc # <<>>
    /\ queue_ops.dequeued > 1
    /\ \A r \in Borrowed : m_heap[r] = "freed"


ReleaseOnExit ==
    m_pc = "exited" /\ exit_status \in {EXIT_SUCCESS, EXIT_FAILURE}
        => ~file_mapped /\ \A r \in DOMAIN m_heap : m_heap[r] # "live"


\* C36 -- Worker count: once the worker phase has started there are exactly
\* N workers, N being the processor count handed to the partitioner, and
\* their thread ids are 0..N-1.
WorkerCount ==
    w_pc # <<>>
        => /\ Len(w_pc) = num_threads
           /\ {thread_id(k) : k \in 1..Len(w_pc)} = 0..(num_threads - 1)


\* C37 -- Block tiling: once start_threads has set up and realigned all the
\* blocks, the first one starts at the start of the mapping, each block
\* ends where the next one starts, no size is negative, the blocks are
\* pairwise disjoint and their sizes add up to the size of the mapping.
BlockTiling ==
    (s_pc \in {"join", "done"} /\ thread_data # <<>>)
        => /\ thread_data[1].start = 1
           /\ \A k \in 1..Len(thread_data) : thread_data[k].size >= 0
           /\ \A j, k \in 1..Len(thread_data) :
                 j < k => thread_data[j].start + thread_data[j].size
                              <= thread_data[k].start
           /\ \A k \in 2..Len(thread_data) :
                 thread_data[k - 1].start + thread_data[k - 1].size
                     = thread_data[k].start
           /\ SumSeq([k \in 1..Len(thread_data) |-> thread_data[k].size])
                  = Len(s_data)

\* Three blocks over a mapping whose size is no multiple of three, the
\* second of which was moved forward and the last of which is left empty.
BlockTilingWitness ==
    /\ s_pc = "join"
    /\ Len(thread_data) = 3
    /\ Len(s_data) % 3 # 0
    /\ thread_data[2].start > 1 + (Len(s_data) \div 3)
    /\ thread_data[3].size = 0


\* C38 -- Chunk buffer release: a worker that is about to dequeue or has
\* terminated holds no chunk buffer, the buffer is still allocated where
\* the worker spawns the subprocess and sends the chunk, and total_memory_freed
\* grows by the length of the buffer in the step that frees it and in no
\* other, so that each buffer is freed once.
ChunkBufferRelease ==
    [][\A k \in 1..Len(w_pc) :
          /\ w_pc'[k] \in {"loop", "exited"} => w_slice'[k] = FreedSlice
          /\ w_pc'[k] \in {"launch", "send"} => w_slice'[k] # FreedSlice
          /\ total_memory_freed'[k] - total_memory_freed[k] =
                IF w_slice[k] # FreedSlice /\ w_slice'[k] = FreedSlice
                THEN Len(w_slice[k].slice) ELSE 0]_vars

\* One worker has freed a chunk it processed and a chunk it dropped.
ChunkBufferReleaseWitness ==
    \E k \in 1..Len(w_pc) :
        /\ w_pc[k] = "exited"
        /\ chunks_processed[k] > 0
        /\ chunks_dropped[k] > 0
        /\ total_memory_freed[k] > 0
        /\ {"spawn", "bind"} \cap faults # {}


\* The chunks the workers hold at this moment.
ChunksHeld == Cardinality({k \in 1..Len(w_pc) : w_slice[k] # FreedSlice})

\* C39 -- Exactly-once dispatch: in the worker phase every chunk enqueued is
\* still in the queue, or held by one worker, or was processed or dropped
\* by one, and so is every chunk dequeued; once all workers have terminated
\* the queue is empty and the chunks processed and dropped are the chunks
\* enqueued.
ExactlyOnceDispatch ==
    w_pc # <<>>
        => /\ queue_ops.enqueued =
                Len(queue) + ChunksHeld + SumSeq(chunks_processed)
                    + SumSeq(chunks_dropped)
           /\ queue_ops.dequeued =
                ChunksHeld + SumSeq(chunks_processed) + SumSeq(chunks_dropped)
           /\ (\A k \in 1..Len(w_pc) : w_pc[k] = "exited")
                => /\ queue = <<>>
                   /\ SumSeq(chunks_processed) + SumSeq(chunks_dropped)
                          = queue_ops.enqueued

\* All workers have terminated after two chunks, one of them processed
\* and one dropped, each worker having taken one.
ExactlyOnceDispatchWitness ==
    /\ w_pc # <<>>
    /\ \A k \in 1..Len(w_pc) : w_pc[k] = "exited" /\ total_memory_freed[k] > 0
    /\ queue_ops.enqueued = 2
    /\ SumSeq(chunks_processed) = 1
    /\ SumSeq(chunks_dropped) = 1


\* C40 -- No use after release in the orchestrator: main never reads or
\* frees line_counts, results or result_sizes (or anything else it owns)
\* after it has freed it.
NoUseAfterRelease == stale_reads = {}

=============================================================================
